---- MODULE Spec2Model ----
(***************************************************************************)
(* A model of the Lox front end of crafting_interpreters_rust: the scanner *)
(* (src/src/scanner.rs), the recursive-descent parser (src/src/parser.rs)  *)
(* and the pretty printer (src/src/pretty_printer.rs).                     *)
(*                                                                         *)
(* Characters are one-character strings, texts are sequences of them.      *)
(* Three specifications share the variables:                               *)
(*   ScanSpec  scan_tokens run on a bounded source text, one step per      *)
(*             iteration of its main loop;                                 *)
(*   ExprSpec  parse_expression on a bounded token sequence, then          *)
(*             print_expression, scan_tokens and parse_expression again;   *)
(*   ProgSpec  parse_program on a bounded token sequence, one step per     *)
(*             iteration of its loop.                                      *)
(***************************************************************************)
EXTENDS Integers, Sequences, FiniteSets, TLC

VARIABLES pc, scan, parser, program, sync, rt, run, interp

vars == <<pc, scan, parser, program, sync, rt, run, interp>>

(***************************************************************************)
(* Bounds of the model.                                                    *)
(***************************************************************************)
MaxSrcLen == 4

MaxExprToks == 5

MaxProgToks == 5

(***************************************************************************)
(* Lexical model: src/src/token.rs                                         *)
(***************************************************************************)
\* Option::None of a peeked or advanced character.
None == ""

NoLiteral == [kind |-> "None", val |-> <<>>]

Literal(kind, val) == [kind |-> kind, val |-> val]

Token(token_type, lexeme, literal, line, column) ==
  [token_type |-> token_type, lexeme |-> lexeme, literal |-> literal,
   line |-> line, column |-> column]

Digits == {"0", "1", "2", "3", "4", "5", "6", "7", "8", "9"}

Letters ==
  {"a", "b", "c", "d", "e", "f", "g", "h", "i", "j", "k", "l", "m",
   "n", "o", "p", "q", "r", "s", "t", "u", "v", "w", "x", "y", "z",
   "A", "B", "C", "D", "E", "F", "G", "H", "I", "J", "K", "L", "M",
   "N", "O", "P", "Q", "R", "S", "T", "U", "V", "W", "X", "Y", "Z"}

is_ascii_digit(c) == c \in Digits

is_ascii_alphabetic(c) == c \in Letters

is_ascii_alphanumeric(c) == c \in Digits \cup Letters

\* KEYWORDS.get(lexeme): the keyword's token type, or Identifier.
KEYWORDS(lexeme) ==
  CASE lexeme = <<"a", "n", "d">> -> "And"
    [] lexeme = <<"c", "l", "a", "s", "s">> -> "Class"
    [] lexeme = <<"e", "l", "s", "e">> -> "Else"
    [] lexeme = <<"f", "a", "l", "s", "e">> -> "False"
    [] lexeme = <<"f", "u", "n">> -> "Fun"
    [] lexeme = <<"f", "o", "r">> -> "For"
    [] lexeme = <<"i", "f">> -> "If"
    [] lexeme = <<"n", "i", "l">> -> "Nil"
    [] lexeme = <<"o", "r">> -> "Or"
    [] lexeme = <<"p", "r", "i", "n", "t">> -> "Print"
    [] lexeme = <<"r", "e", "t", "u", "r", "n">> -> "Return"
    [] lexeme = <<"s", "u", "p", "e", "r">> -> "Super"
    [] lexeme = <<"t", "h", "i", "s">> -> "This"
    [] lexeme = <<"t", "r", "u", "e">> -> "True"
    [] lexeme = <<"v", "a", "r">> -> "Var"
    [] lexeme = <<"w", "h", "i", "l", "e">> -> "While"
    [] OTHER -> "Identifier"

(***************************************************************************)
(* Number values.  A Literal::Number is an f64; for the decimal texts of   *)
(* at most 15 significant digits that the model's bounds allow, parsing a  *)
(* text and printing the f64 give back the text's canonical decimal form,  *)
(* so the value is kept as integer digits, "." and fraction digits with    *)
(* no leading zero of the integer part and no trailing zero of the         *)
(* fraction.                                                               *)
(***************************************************************************)
RECURSIVE StripLeadingZeros(_)
StripLeadingZeros(ds) ==
  IF Len(ds) > 1 /\ Head(ds) = "0" THEN StripLeadingZeros(Tail(ds)) ELSE ds

RECURSIVE StripTrailingZeros(_)
StripTrailingZeros(ds) ==
  IF Len(ds) > 0 /\ ds[Len(ds)] = "0"
  THEN StripTrailingZeros(SubSeq(ds, 1, Len(ds) - 1))
  ELSE ds

\* Index of the first "." of a text, or 0.
RECURSIVE DotIndex(_, _)
DotIndex(s, k) ==
  IF k > Len(s) THEN 0 ELSE IF s[k] = "." THEN k ELSE DotIndex(s, k + 1)

\* lexeme.parse::<f64>() on a text of digits with at most one ".".
parse_f64(lexeme) ==
  LET d == DotIndex(lexeme, 1)
      ip == IF d = 0 THEN lexeme ELSE SubSeq(lexeme, 1, d - 1)
      fp == IF d = 0 THEN <<>> ELSE SubSeq(lexeme, d + 1, Len(lexeme))
  IN StripLeadingZeros(IF ip = <<>> THEN <<"0">> ELSE ip) \o <<".">>
       \o StripTrailingZeros(fp)

\* f64's Display (n.to_string()): no fraction is printed for a whole number.
f64_to_string(val) ==
  IF val[Len(val)] = "." THEN SubSeq(val, 1, Len(val) - 1) ELSE val

(***************************************************************************)
(* Scanner: src/src/scanner.rs.  A scanner state holds the source and the  *)
(* index of the next character (the Peekable<Chars>), line and column, the *)
(* tokens pushed so far and the errors reported so far.  starts is a       *)
(* history field: for every token, the index in the source of the first    *)
(* character of its lexeme.                                                *)
(***************************************************************************)
\* Scanner::new
ScannerNew(source) ==
  [src |-> source, i |-> 1, line |-> 1, column |-> 0,
   tokens |-> <<>>, starts |-> <<>>, errors |-> <<>>]

\* self.chars.peek()
Peek(sc) == IF sc.i <= Len(sc.src) THEN sc.src[sc.i] ELSE None

advance(sc) ==
  [sc EXCEPT !.i = IF sc.i <= Len(sc.src) THEN sc.i + 1 ELSE sc.i,
             !.column = sc.column + 1]

\* error_reporter.error(self.line, self.column, message)
ScanError(sc, message) ==
  [sc EXCEPT !.errors =
     Append(@, [line |-> sc.line, column |-> sc.column, message |-> message])]

\* tokens.push(self.add_token(..)): the token takes the line and column the
\* scanner has when the token is built.
add_token(sc, token_type, lexeme, literal, start) ==
  [sc EXCEPT !.tokens =
               Append(@, Token(token_type, lexeme, literal, sc.line, sc.column)),
             !.starts = Append(@, start)]

add_single_character_token(sc, token_type, c, start) ==
  add_token(sc, token_type, <<c>>, NoLiteral, start)

\* The arms for ! = > < : a two-character operator when '=' follows.
OneOrTwo(sc, c, start, two, one) ==
  IF Peek(sc) = "="
  THEN add_token(advance(sc), two, <<c, "=">>, NoLiteral, start)
  ELSE add_single_character_token(sc, one, c, start)

NewLine(sc) == [sc EXCEPT !.line = sc.line + 1, !.column = 1]

\* "//": ignore until the newline, which is left for the main loop.
RECURSIVE LineComment(_)
LineComment(sc) ==
  IF Peek(sc) # None /\ Peek(sc) # "\n" THEN LineComment(advance(sc)) ELSE sc

\* "/*": the loop over (self.advance(), self.chars.peek()).
RECURSIVE BlockComment(_)
BlockComment(sc) ==
  LET c == Peek(sc)
      s1 == advance(sc)
  IN IF c = None THEN ScanError(s1, "Unterminated multi-line comment.")
     ELSE IF c = "\n" THEN BlockComment(NewLine(s1))
     ELSE IF c = "*" /\ Peek(s1) = "/" THEN advance(s1)
     ELSE BlockComment(s1)

\* A variant of StringLoop in which a string may not span lines: the loop
\* gives up, unclosed, at the first newline.
RECURSIVE StringLoopEndsAtNewline(_, _)
StringLoopEndsAtNewline(sc, lexeme) ==
  LET c == Peek(sc)
      s1 == advance(sc)
  IN IF c = None THEN [sc |-> sc, lexeme |-> lexeme, closed |-> FALSE]
     ELSE IF c = "\""
     THEN [sc |-> s1, lexeme |-> Append(lexeme, c), closed |-> TRUE]
     ELSE IF c = "\n"
     THEN [sc |-> NewLine(s1), lexeme |-> lexeme, closed |-> FALSE]
     ELSE StringLoopEndsAtNewline(s1, Append(lexeme, c))

\* The loop of the string arm: [sc, lexeme, closed] when it ends.
RECURSIVE StringLoop(_, _)
StringLoop(sc, lexeme) ==
  LET c == Peek(sc)
      s1 == advance(sc)
  IN IF c = None THEN [sc |-> sc, lexeme |-> lexeme, closed |-> FALSE]
     ELSE IF c = "\""
     THEN [sc |-> s1, lexeme |-> Append(lexeme, c), closed |-> TRUE]
     ELSE StringLoop(IF c = "\n" THEN NewLine(s1) ELSE s1, Append(lexeme, c))

\* str::trim_matches('"'): every leading and trailing quote is removed.
RECURSIVE trim_matches(_)
trim_matches(s) ==
  IF Len(s) > 0 /\ Head(s) = "\"" THEN trim_matches(Tail(s))
  ELSE IF Len(s) > 0 /\ s[Len(s)] = "\"" THEN trim_matches(SubSeq(s, 1, Len(s) - 1))
  ELSE s

\* The string arm.  sc is the scanner after the opening quote was consumed
\* by the main loop's advance.
StringArmSkip(sc) == advance(sc)

StringArm(sc, start) ==
  LET r == StringLoop(StringArmSkip(sc), <<"\"">>)
  IN IF ~r.closed THEN ScanError(r.sc, "Unterminated string.")
     ELSE add_token(r.sc, "String", r.lexeme,
                    Literal("String", trim_matches(r.lexeme)), start)

\* Scanner::number: [sc, lexeme] when the loop ends.
RECURSIVE NumberLoop(_, _, _)
NumberLoop(sc, lexeme, has_decimal) ==
  LET c == Peek(sc)
  IN IF c # None /\ is_ascii_digit(c)
     THEN NumberLoop(advance(sc), Append(lexeme, c), has_decimal)
     ELSE IF c = "." /\ ~has_decimal
     THEN NumberLoop(advance(sc), Append(lexeme, "."), TRUE)
     ELSE IF c = "." /\ has_decimal
     THEN [sc |-> ScanError(sc, "Invalid number: multiple decimal points."),
           lexeme |-> lexeme]
     ELSE [sc |-> sc, lexeme |-> lexeme]

number(sc, first_digit, start) ==
  LET r == NumberLoop(sc, <<first_digit>>, FALSE)
  IN add_token(r.sc, "Number", r.lexeme,
               Literal("Number", parse_f64(r.lexeme)), start)

\* Scanner::identifier
RECURSIVE IdentifierLoop(_, _)
IdentifierLoop(sc, lexeme) ==
  LET c == Peek(sc)
  IN IF c # None /\ (is_ascii_alphanumeric(c) \/ c = "_")
     THEN IdentifierLoop(advance(sc), Append(lexeme, c))
     ELSE [sc |-> sc, lexeme |-> lexeme]

identifier(sc, c, start) ==
  LET r == IdentifierLoop(sc, <<c>>)
      token_type == KEYWORDS(r.lexeme)
      literal ==
        CASE token_type = "Nil" -> Literal("Nil", <<>>)
          [] token_type = "True" -> Literal("Boolean", <<"true">>)
          [] token_type = "False" -> Literal("Boolean", <<"false">>)
          [] OTHER -> NoLiteral
  IN add_token(r.sc, token_type, r.lexeme, literal, start)

\* One iteration of the loop of scan_tokens: `while let Some(c) = self.advance()`
\* with a character left, and the arm of the match on c.
ScanStep(sc0) ==
  LET c == Peek(sc0)
      start == sc0.i
      sc == advance(sc0)
  IN CASE c = "(" -> add_single_character_token(sc, "LeftParen", c, start)
       [] c = ")" -> add_single_character_token(sc, "RightParen", c, start)
       [] c = "{" -> add_single_character_token(sc, "LeftBrace", c, start)
       [] c = "}" -> add_single_character_token(sc, "RightBrace", c, start)
       [] c = "," -> add_single_character_token(sc, "Comma", c, start)
       [] c = "." -> add_single_character_token(sc, "Dot", c, start)
       [] c = "-" -> add_single_character_token(sc, "Minus", c, start)
       [] c = "+" -> add_single_character_token(sc, "Plus", c, start)
       [] c = ";" -> add_single_character_token(sc, "Semicolon", c, start)
       [] c = "*" ->
            IF Peek(sc) = "/"
            THEN ScanError(advance(sc),
                   "Unexpected closing comment marker '*/' without a corresponding opening '/*'.")
            ELSE add_single_character_token(sc, "Star", c, start)
       [] c = "!" -> OneOrTwo(sc, c, start, "BangEqual", "Bang")
       [] c = "=" -> OneOrTwo(sc, c, start, "EqualEqual", "Equal")
       [] c = ">" -> OneOrTwo(sc, c, start, "GreaterEqual", "Greater")
       [] c = "<" -> OneOrTwo(sc, c, start, "LessEqual", "Less")
       [] c = "/" ->
            IF Peek(sc) = "/" THEN LineComment(advance(sc))
            ELSE IF Peek(sc) = "*" THEN BlockComment(advance(sc))
            ELSE add_single_character_token(sc, "Slash", c, start)
       [] c = "\"" -> StringArm(sc, start)
       [] c \in {" ", "\r", "\t"} -> sc
       [] c = "\n" -> NewLine(sc)
       [] OTHER ->
            IF is_ascii_digit(c) THEN number(sc, c, start)
            ELSE IF is_ascii_alphabetic(c) \/ c = "_" THEN identifier(sc, c, start)
            ELSE ScanError(sc, "Unexepected character.")

\* A variant of ScanEof that returns the tokens without pushing Eof.
ScanEofNotPushed(sc0) == advance(sc0)

\* The end of scan_tokens: the advance that returned None has counted a
\* column, and the Eof token is pushed.
ScanEof(sc0) ==
  LET sc == advance(sc0)
  IN [sc EXCEPT !.tokens = Append(@, Token("Eof", <<>>, NoLiteral, sc.line, sc.column)),
                !.starts = Append(@, sc0.i)]

\* scan_tokens as a whole.
RECURSIVE ScanLoop(_)
ScanLoop(sc) == IF Peek(sc) = None THEN ScanEof(sc) ELSE ScanLoop(ScanStep(sc))

scan_tokens(source) == ScanLoop(ScannerNew(source))

(***************************************************************************)
(* AST: src/src/ast.rs.  The line and column that every node carries are   *)
(* not modelled: no claim reads them, and two nodes are structurally equal *)
(* exactly when their records here are equal.                              *)
(***************************************************************************)
\* An absent Option<..> node, and the node slot of an Err result.
NoNode == [kind |-> "None"]

Lit(value) == [kind |-> "Lit", value |-> value]

Var(ident) == [kind |-> "Var", identifier |-> ident]

Grouping(expression) == [kind |-> "Grouping", expression |-> expression]

Unary(operator, right) == [kind |-> "Unary", operator |-> operator, right |-> right]

Binary(left, operator, right) ==
  [kind |-> "Binary", left |-> left, operator |-> operator, right |-> right]

Logical(left, logic_op, right) ==
  [kind |-> "Logical", left |-> left, logic_op |-> logic_op, right |-> right]

Assignment(ident, value) ==
  [kind |-> "Assignment", identifier |-> ident, value |-> value]

VarDecl(ident, initializer) ==
  [kind |-> "VarDecl", identifier |-> ident, initializer |-> initializer]

ExprStmt(expression) == [kind |-> "ExprStmt", expression |-> expression]

PrintStmt(expression) == [kind |-> "PrintStmt", expression |-> expression]

Block(declarations) == [kind |-> "Block", declarations |-> declarations]

IfStmt(condition, then_stmt, else_stmt) ==
  [kind |-> "IfStmt", condition |-> condition, then_stmt |-> then_stmt,
   else_stmt |-> else_stmt]

WhileStmt(condition, do_stmt) ==
  [kind |-> "WhileStmt", condition |-> condition, do_stmt |-> do_stmt]

ForStmt(initializer, condition, update, body) ==
  [kind |-> "ForStmt", initializer |-> initializer, condition |-> condition,
   update |-> update, body |-> body]

\* Declaration { kind: DeclKind::Statement(statement) }
StatementDecl(statement) == [kind |-> "Statement", statement |-> statement]

(***************************************************************************)
(* Parser: src/src/parser.rs.  A parser state st holds the position of the *)
(* next token of the Peekable iterator (Len(toks) + 1 when it is           *)
(* exhausted) and the messages of the diagnostics reported so far (the     *)
(* error reporter; had_error is diags # <<>>).  Every parse function       *)
(* returns a Result: [ok, err, node, st].                                  *)
(***************************************************************************)
ParserNew == [pos |-> 1, diags |-> <<>>]

Ok(node, st) == [ok |-> TRUE, err |-> "None", node |-> node, st |-> st]

Err(err, st) == [ok |-> FALSE, err |-> err, node |-> NoNode, st |-> st]

\* self.error_reporter.error(.., message)
ParseErrorReport(st, message) == [st EXCEPT !.diags = Append(@, message)]

had_error(st) == st.diags # <<>>

\* self.token_iterator.next(): the iterator moves unless it is exhausted.
NextToken(toks, st) ==
  [st EXCEPT !.pos = IF st.pos <= Len(toks) THEN st.pos + 1 ELSE st.pos]

AtEnd(toks, st) == st.pos > Len(toks)

check(toks, st, token_type) ==
  ~AtEnd(toks, st) /\ toks[st.pos].token_type = token_type

\* The peeked token's type when it is one of search_types, else "None".
search(toks, st, search_types) ==
  IF ~AtEnd(toks, st) /\ toks[st.pos].token_type \in search_types
  THEN toks[st.pos].token_type
  ELSE "None"

\* On success the node slot holds the consumed token.
consume(toks, st, token_type, error_message) ==
  IF check(toks, st, token_type) THEN Ok(toks[st.pos], NextToken(toks, st))
  ELSE IF ~AtEnd(toks, st)
  THEN Err("UnexpectedToken", ParseErrorReport(st, error_message))
  ELSE Err("MissingToken", ParseErrorReport(st, "Unexpected end of input"))

EqualityOps == {"BangEqual", "EqualEqual"}

ComparisonOps == {"Greater", "GreaterEqual", "Less", "LessEqual"}

TermOps == {"Minus", "Plus"}

FactorOps == {"Slash", "Star"}

UnaryOps == {"Bang", "Minus"}

\* A parse function's code after a call whose result it propagates with `?`
\* is written as an operator that takes the call's result.

RECURSIVE parse_assignment(_, _)
RECURSIVE unary(_, _)
RECURSIVE next_precedence(_, _, _)
RECURSIVE binary_op(_, _, _, _, _)
RECURSIVE LogicalLoop(_, _, _)

parse_expression(toks, st) == parse_assignment(toks, st)

\* primary, LeftParen arm, after consume(RightParen, ..)?
GroupingClosed(expression, c) ==
  IF ~c.ok THEN c ELSE Ok(Grouping(expression), c.st)

\* primary, LeftParen arm, after parse_expression()?
GroupingInner(toks, e) ==
  IF ~e.ok THEN e
  ELSE GroupingClosed(e.node,
         consume(toks, e.st, "RightParen", "Expect ')' after expression."))

primary(toks, st) ==
  IF AtEnd(toks, st)
  THEN Err("UnexpectedToken", ParseErrorReport(st, "Unexpected end of input"))
  ELSE
    LET token == toks[st.pos]
        s1 == NextToken(toks, st)
    IN CASE token.token_type \in {"False", "True", "Nil", "Number", "String"} ->
              IF token.literal = NoLiteral
              THEN Err("UnexpectedToken", ParseErrorReport(s1, "Expected literal value"))
              ELSE Ok(Lit(token.literal), s1)
         [] token.token_type = "Identifier" -> Ok(Var(token.lexeme), s1)
         [] token.token_type = "LeftParen" ->
              GroupingInner(toks, parse_expression(toks, s1))
         [] OTHER ->
              Err("UnexpectedToken",
                  ParseErrorReport(s1, "Unexpected token: " \o token.token_type))

\* unary, after self.unary()?
UnaryOf(op, right) ==
  IF ~right.ok THEN right ELSE Ok(Unary(op, right.node), right.st)

\* The arm that reports "Unexpected operator in unary expression" cannot be
\* taken: search only returns Bang or Minus.
unary(toks, st) ==
  IF search(toks, st, UnaryOps) # "None"
  THEN UnaryOf(search(toks, st, UnaryOps), unary(toks, NextToken(toks, st)))
  ELSE primary(toks, st)

\* The operands that follow a right operand under operators of its level.
RightChain(toks, right, operators, next) ==
  IF ~right.ok THEN right
  ELSE binary_op(toks, right.st, right.node, operators, next)

RightNested(left, op, right) ==
  IF ~right.ok THEN right ELSE Ok(Binary(left, op, right.node), right.st)

\* binary_op, after next_precedence(self)?: the Binary node becomes the left
\* operand of the next iteration.
BinaryOf(toks, left, op, right, operators, next) ==
  IF ~right.ok THEN right
  ELSE binary_op(toks, right.st, Binary(left, op, right.node), operators, next)

\* A variant of binary_op that parses all that follows an operator as its
\* right operand.
binary_op_right_nested(toks, st, left, operators, next) ==
  IF search(toks, st, operators) = "None" THEN Ok(left, st)
  ELSE RightNested(left, search(toks, st, operators),
                   RightChain(toks, next_precedence(next, toks, NextToken(toks, st)),
                              operators, next))

\* The loop of binary_op; next names the next_precedence function passed in.
binary_op(toks, st, left, operators, next) ==
  IF search(toks, st, operators) = "None" THEN Ok(left, st)
  ELSE BinaryOf(toks, left, search(toks, st, operators),
                next_precedence(next, toks, NextToken(toks, st)), operators, next)

\* equality, comparison, term, factor after the first operand's `?`.
BinaryLevel(toks, left, operators, next) ==
  IF ~left.ok THEN left ELSE binary_op(toks, left.st, left.node, operators, next)

factor(toks, st) == BinaryLevel(toks, unary(toks, st), FactorOps, "unary")

\* A variant of term whose right operands are parsed by unary, not factor.
term_operands_by_unary(toks, st) ==
  BinaryLevel(toks, factor(toks, st), TermOps, "unary")

term(toks, st) == BinaryLevel(toks, factor(toks, st), TermOps, "factor")

comparison(toks, st) == BinaryLevel(toks, term(toks, st), ComparisonOps, "term")

equality(toks, st) == BinaryLevel(toks, comparison(toks, st), EqualityOps, "comparison")

\* The function values Self::comparison, Self::term, Self::factor, Self::unary.
next_precedence(next, toks, st) ==
  CASE next = "comparison" -> comparison(toks, st)
    [] next = "term" -> term(toks, st)
    [] next = "factor" -> factor(toks, st)
    [] next = "unary" -> unary(toks, st)

\* A variant of LogicalOf that builds a Binary node.
LogicalOfBinary(toks, expr, token_type, right) ==
  IF ~right.ok THEN right
  ELSE LogicalLoop(toks, right.st, Binary(expr, token_type, right.node))

\* logical, after self.equality()? inside the loop.
LogicalOf(toks, expr, token_type, right) ==
  IF ~right.ok THEN right
  ELSE LogicalLoop(toks, right.st, Logical(expr, token_type, right.node))

\* The while loop of logical.
LogicalLoop(toks, st, expr) ==
  IF search(toks, st, {"And", "Or"}) = "None" THEN Ok(expr, st)
  ELSE LogicalOf(toks, expr, search(toks, st, {"And", "Or"}),
                 equality(toks, NextToken(toks, st)))

\* logical, after the first self.equality()?
LogicalFirst(toks, expr) ==
  IF ~expr.ok THEN expr ELSE LogicalLoop(toks, expr.st, expr.node)

logical(toks, st) == LogicalFirst(toks, equality(toks, st))

\* A variant of AssignmentOf that fails the parse on an invalid target.
AssignmentOfRejecting(expr, value) ==
  IF ~value.ok THEN value
  ELSE IF expr.node.kind = "Var"
  THEN Ok(Assignment(expr.node.identifier, value.node), value.st)
  ELSE Err("UnexpectedToken", ParseErrorReport(value.st, "Invalid assignment target."))

\* parse_assignment, after self.parse_assignment()? for the value: an
\* Assignment node for a Var target; otherwise the error is reported and the
\* left-hand expression is returned.
AssignmentOf(expr, value) ==
  IF ~value.ok THEN value
  ELSE IF expr.node.kind = "Var"
  THEN Ok(Assignment(expr.node.identifier, value.node), value.st)
  ELSE Ok(expr.node, ParseErrorReport(value.st, "Invalid assignment target."))

\* parse_assignment, after self.logical()?
AssignmentTarget(toks, expr) ==
  IF ~expr.ok THEN expr
  ELSE IF search(toks, expr.st, {"Equal"}) = "Equal"
  THEN AssignmentOf(expr, parse_assignment(toks, NextToken(toks, expr.st)))
  ELSE expr

parse_assignment(toks, st) == AssignmentTarget(toks, logical(toks, st))

(***************************************************************************)
(* Statements and declarations: src/src/parser.rs, lines 28 to 251, and    *)
(* synchronize, lines 489 to 514.                                          *)
(***************************************************************************)
RECURSIVE parse_declaration(_, _)
RECURSIVE parse_statement(_, _)
RECURSIVE BlockLoop(_, _, _)
RECURSIVE synchronize(_, _)

\* After the last consume(..)? of a parse function: Ok(node).
AfterConsume(c, node) == IF ~c.ok THEN c ELSE Ok(node, c.st)

\* parse_var_decl, after self.parse_assignment()? for the initializer.
VarDeclInitializer(toks, ident, expression) ==
  IF ~expression.ok THEN expression
  ELSE AfterConsume(consume(toks, expression.st, "Semicolon",
                            "Expect ';' after variable declaration."),
                    VarDecl(ident, expression.node))

\* parse_var_decl, the match on self.token_iterator.next(): the token is
\* taken whatever its type.
VarDeclName(toks, st) ==
  IF AtEnd(toks, st) THEN Err("UnexpectedEOF", st)
  ELSE IF toks[st.pos].token_type # "Identifier"
  THEN Err("UnexpectedToken", NextToken(toks, st))
  ELSE CASE search(toks, NextToken(toks, st), {"Equal", "Semicolon"}) = "Equal" ->
              VarDeclInitializer(toks, toks[st.pos].lexeme,
                parse_assignment(toks, NextToken(toks, NextToken(toks, st))))
         [] search(toks, NextToken(toks, st), {"Equal", "Semicolon"}) = "Semicolon" ->
              Ok(VarDecl(toks[st.pos].lexeme, NoNode),
                 NextToken(toks, NextToken(toks, st)))
         [] OTHER -> Err("UnexpectedToken", NextToken(toks, st))

VarDeclAfterKeyword(toks, c) == IF ~c.ok THEN c ELSE VarDeclName(toks, c.st)

parse_var_decl(toks, st) ==
  VarDeclAfterKeyword(toks, consume(toks, st, "Var", "Expected 'var'"))

\* parse_print_statement, after self.parse_expression()?
PrintExpression(toks, expression) ==
  IF ~expression.ok THEN expression
  ELSE AfterConsume(consume(toks, expression.st, "Semicolon",
                            "Expected ';' after Expression."),
                    PrintStmt(expression.node))

PrintAfterKeyword(toks, c) ==
  IF ~c.ok THEN c ELSE PrintExpression(toks, parse_expression(toks, c.st))

parse_print_statement(toks, st) ==
  PrintAfterKeyword(toks, consume(toks, st, "Print", "Expected 'print'"))

\* parse_while_statement, after self.parse_statement()? for the body.
WhileBody(condition, do_stmt) ==
  IF ~do_stmt.ok THEN do_stmt
  ELSE Ok(WhileStmt(condition, do_stmt.node), do_stmt.st)

WhileClosed(toks, condition, c) ==
  IF ~c.ok THEN c ELSE WhileBody(condition, parse_statement(toks, c.st))

WhileCondition(toks, condition) ==
  IF ~condition.ok THEN condition
  ELSE WhileClosed(toks, condition.node,
         consume(toks, condition.st, "RightParen",
                 "Expected ')' after while condition"))

WhileAfterParen(toks, c) ==
  IF ~c.ok THEN c ELSE WhileCondition(toks, parse_expression(toks, c.st))

WhileAfterKeyword(toks, c) ==
  IF ~c.ok THEN c
  ELSE WhileAfterParen(toks, consume(toks, c.st, "LeftParen", "Expected '(' after while"))

parse_while_statement(toks, st) ==
  WhileAfterKeyword(toks, consume(toks, st, "While", "Expected 'while'"))

\* parse_for_statement, after self.parse_statement()? for the body.
ForBody(initializer, condition, update, body) ==
  IF ~body.ok THEN body
  ELSE Ok(ForStmt(initializer, condition, update, body.node), body.st)

ForClosed(toks, initializer, condition, update, c) ==
  IF ~c.ok THEN c
  ELSE ForBody(initializer, condition, update, parse_statement(toks, c.st))

ForUpdate(toks, initializer, condition, update) ==
  IF ~update.ok THEN update
  ELSE ForClosed(toks, initializer, condition, update.node,
         consume(toks, update.st, "RightParen", "Expected ')' after for clauses"))

\* parse_for_statement, after consume(Semicolon, ..)? behind the condition.
ForConditionEnd(toks, initializer, condition, c) ==
  IF ~c.ok THEN c
  ELSE IF check(toks, c.st, "RightParen")
  THEN ForClosed(toks, initializer, condition, NoNode,
         consume(toks, c.st, "RightParen", "Expected ')' after for clauses"))
  ELSE ForUpdate(toks, initializer, condition, parse_expression(toks, c.st))

ForConditionParsed(toks, initializer, condition) ==
  IF ~condition.ok THEN condition
  ELSE ForConditionEnd(toks, initializer, condition.node,
         consume(toks, condition.st, "Semicolon",
                 "Expected ';' after for loop condition"))

ForCondition(toks, initializer, st) ==
  IF check(toks, st, "Semicolon")
  THEN ForConditionEnd(toks, initializer, NoNode,
         consume(toks, st, "Semicolon", "Expected ';' after for loop condition"))
  ELSE ForConditionParsed(toks, initializer, parse_expression(toks, st))

ForInitializer(toks, initializer) ==
  IF ~initializer.ok THEN initializer
  ELSE ForCondition(toks, initializer.node, initializer.st)

\* parse_for_statement, after consume(LeftParen, ..)?: a ';' in place of the
\* initializer is consumed here.
ForAfterParen(toks, c) ==
  IF ~c.ok THEN c
  ELSE IF check(toks, c.st, "Semicolon")
  THEN ForCondition(toks, NoNode, NextToken(toks, c.st))
  ELSE ForInitializer(toks, parse_declaration(toks, c.st))

ForAfterKeyword(toks, c) ==
  IF ~c.ok THEN c
  ELSE ForAfterParen(toks, consume(toks, c.st, "LeftParen", "Expected '(' after for"))

parse_for_statement(toks, st) ==
  ForAfterKeyword(toks, consume(toks, st, "For", "Expected 'for'"))

\* parse_if_statement, after self.parse_statement()? for the else branch.
IfElse(condition, then_stmt, else_stmt) ==
  IF ~else_stmt.ok THEN else_stmt
  ELSE Ok(IfStmt(condition, then_stmt, else_stmt.node), else_stmt.st)

IfThen(toks, condition, then_stmt) ==
  IF ~then_stmt.ok THEN then_stmt
  ELSE IF search(toks, then_stmt.st, {"Else"}) = "Else"
  THEN IfElse(condition, then_stmt.node,
         parse_statement(toks, NextToken(toks, then_stmt.st)))
  ELSE Ok(IfStmt(condition, then_stmt.node, NoNode), then_stmt.st)

IfClosed(toks, condition, c) ==
  IF ~c.ok THEN c ELSE IfThen(toks, condition, parse_statement(toks, c.st))

IfCondition(toks, condition) ==
  IF ~condition.ok THEN condition
  ELSE IfClosed(toks, condition.node,
         consume(toks, condition.st, "RightParen", "Expected ')' after if condition"))

IfAfterParen(toks, c) ==
  IF ~c.ok THEN c ELSE IfCondition(toks, parse_expression(toks, c.st))

IfAfterKeyword(toks, c) ==
  IF ~c.ok THEN c
  ELSE IfAfterParen(toks, consume(toks, c.st, "LeftParen", "Expected '(' after if"))

parse_if_statement(toks, st) ==
  IfAfterKeyword(toks, consume(toks, st, "If", "Expected 'if'"))

\* parse_expression_statement, after self.parse_expression()?
ExpressionStatementEnd(toks, expression) ==
  IF ~expression.ok THEN expression
  ELSE AfterConsume(consume(toks, expression.st, "Semicolon",
                            "Expect ';' after expression."),
                    ExprStmt(expression.node))

parse_expression_statement(toks, st) ==
  ExpressionStatementEnd(toks, parse_expression(toks, st))

\* parse_block, declarations.push(self.parse_declaration()?)
BlockPush(toks, declarations, declaration) ==
  IF ~declaration.ok THEN declaration
  ELSE BlockLoop(toks, declaration.st, Append(declarations, declaration.node))

\* parse_block, the while loop and the closing consume.
BlockLoop(toks, st, declarations) ==
  IF ~check(toks, st, "RightBrace") /\ ~AtEnd(toks, st)
  THEN BlockPush(toks, declarations, parse_declaration(toks, st))
  ELSE AfterConsume(consume(toks, st, "RightBrace", "Expect '}' after block."),
                    Block(declarations))

BlockAfterBrace(toks, c) == IF ~c.ok THEN c ELSE BlockLoop(toks, c.st, <<>>)

parse_block(toks, st) ==
  BlockAfterBrace(toks, consume(toks, st, "LeftBrace", "Expected '('"))

StatementKeywords == {"Print", "LeftBrace", "While", "For", "If"}

parse_statement(toks, st) ==
  CASE search(toks, st, StatementKeywords) = "Print" -> parse_print_statement(toks, st)
    [] search(toks, st, StatementKeywords) = "LeftBrace" -> parse_block(toks, st)
    [] search(toks, st, StatementKeywords) = "If" -> parse_if_statement(toks, st)
    [] search(toks, st, StatementKeywords) = "While" -> parse_while_statement(toks, st)
    [] search(toks, st, StatementKeywords) = "For" -> parse_for_statement(toks, st)
    [] OTHER -> parse_expression_statement(toks, st)

\* parse_declaration, the map over parse_statement's result.
StatementDeclOf(statement) ==
  IF ~statement.ok THEN statement
  ELSE Ok(StatementDecl(statement.node), statement.st)

parse_declaration(toks, st) ==
  IF search(toks, st, {"Var"}) = "Var" THEN parse_var_decl(toks, st)
  ELSE StatementDeclOf(parse_statement(toks, st))

\* The token types at which synchronize stops when it peeks one.
SyncKeywords ==
  {"Class", "Fun", "Var", "For", "If", "While", "Print", "LeftBrace", "Return"}

\* synchronize: each round takes one token; after a ';' it takes one more
\* and returns, and it returns when the token it peeks is in SyncKeywords.
synchronize(toks, st) ==
  IF AtEnd(toks, st)
  THEN Err("UnexpectedEOF", ParseErrorReport(st, "Unexpected End of File."))
  ELSE IF toks[st.pos].token_type = "Semicolon"
  THEN Ok(NoNode, NextToken(toks, NextToken(toks, st)))
  ELSE IF search(toks, NextToken(toks, st), SyncKeywords) # "None"
  THEN Ok(NoNode, NextToken(toks, st))
  ELSE synchronize(toks, NextToken(toks, st))

\* parse_program, the Err arm after self.synchronize(): break on
\* Err(UnexpectedEOF), else the next round.
RECURSIVE ProgramLoop(_, _, _)
ProgramRecovered(toks, declarations, recovered) ==
  IF recovered.ok THEN ProgramLoop(toks, recovered.st, declarations)
  ELSE [program |-> declarations, st |-> recovered.st]

\* parse_program, the match on self.parse_declaration().
ProgramRound(toks, declarations, declaration) ==
  IF declaration.ok
  THEN ProgramLoop(toks, declaration.st, Append(declarations, declaration.node))
  ELSE ProgramRecovered(toks, declarations, synchronize(toks, declaration.st))

\* parse_program, the while loop.
ProgramLoop(toks, st, declarations) ==
  IF AtEnd(toks, st) THEN [program |-> declarations, st |-> st]
  ELSE ProgramRound(toks, declarations, parse_declaration(toks, st))

\* Parser::parse_program: the program and the parser's final state.
parse_program(toks) == ProgramLoop(toks, ParserNew, <<>>)

(***************************************************************************)
(* Pretty printer: src/src/pretty_printer.rs                               *)
(***************************************************************************)
\* impl Display for Operator (src/src/token.rs)
OperatorDisplay(op) ==
  CASE op = "Minus" -> <<"-">>
    [] op = "Plus" -> <<"+">>
    [] op = "Slash" -> <<"/">>
    [] op = "Star" -> <<"*">>
    [] op = "Bang" -> <<"!">>
    [] op = "BangEqual" -> <<"!", "=">>
    [] op = "Equal" -> <<"=">>
    [] op = "EqualEqual" -> <<"=", "=">>
    [] op = "Greater" -> <<">">>
    [] op = "GreaterEqual" -> <<">", "=">>
    [] op = "Less" -> <<"<">>
    [] op = "LessEqual" -> <<"<", "=">>

\* The text print_logical writes for logic_op.  TokenType has no Display in
\* src/src/token.rs; the keyword's source text is taken.
TokenTypeDisplay(token_type) ==
  CASE token_type = "And" -> <<"a", "n", "d">>
    [] token_type = "Or" -> <<"o", "r">>

print_literal(value) ==
  CASE value.kind = "Number" -> f64_to_string(value.val)
    [] value.kind = "String" -> <<"\"">> \o value.val \o <<"\"">>
    [] value.kind = "Boolean" ->
         IF value.val = <<"true">> THEN <<"t", "r", "u", "e">>
         ELSE <<"f", "a", "l", "s", "e">>
    [] value.kind = "Nil" -> <<"n", "i", "l">>

\* A variant of print_assignment in the prefix form of the other nodes.
print_assignment_prefix(ident, value) ==
  <<"(", "=", " ">> \o ident \o <<" ">> \o value \o <<")">>

\* print_assignment, given the text of the value: "{} = {}".
print_assignment(ident, value) == ident \o <<" ", "=", " ">> \o value

RECURSIVE print_expression(_)
print_expression(expr) ==
  CASE expr.kind = "Lit" -> print_literal(expr.value)
    [] expr.kind = "Var" -> expr.identifier
    [] expr.kind = "Grouping" ->
         <<"(", "g", "r", "o", "u", "p", " ">> \o print_expression(expr.expression)
           \o <<")">>
    [] expr.kind = "Unary" ->
         <<"(">> \o OperatorDisplay(expr.operator) \o <<" ">>
           \o print_expression(expr.right) \o <<")">>
    [] expr.kind = "Binary" ->
         <<"(">> \o OperatorDisplay(expr.operator) \o <<" ">>
           \o print_expression(expr.left) \o <<" ">>
           \o print_expression(expr.right) \o <<")">>
    [] expr.kind = "Logical" ->
         <<"(">> \o print_expression(expr.left) \o <<" ">>
           \o TokenTypeDisplay(expr.logic_op) \o <<" ">>
           \o print_expression(expr.right) \o <<")">>
    [] expr.kind = "Assignment" ->
         print_assignment(expr.identifier, print_expression(expr.value))

\* [String]::join(sep)
RECURSIVE Join(_, _)
Join(texts, sep) ==
  IF texts = <<>> THEN <<>>
  ELSE IF Len(texts) = 1 THEN texts[1]
  ELSE texts[1] \o sep \o Join(Tail(texts), sep)

\* Index of the first line feed of a text from index k on, or 0.
RECURSIVE IndexOfLineFeed(_, _)
IndexOfLineFeed(text, k) ==
  IF k > Len(text) THEN 0
  ELSE IF text[k] = "\n" THEN k ELSE IndexOfLineFeed(text, k + 1)

\* str::lines(): the text between line feeds; a final line feed ends the
\* last line and starts no empty one.
RECURSIVE Lines(_)
Lines(text) ==
  IF text = <<>> THEN <<>>
  ELSE IF IndexOfLineFeed(text, 1) = 0 THEN <<text>>
  ELSE <<SubSeq(text, 1, IndexOfLineFeed(text, 1) - 1)>>
         \o Lines(SubSeq(text, IndexOfLineFeed(text, 1) + 1, Len(text)))

\* str::trim_end_matches(';')
RECURSIVE trim_end_matches(_)
trim_end_matches(text) ==
  IF Len(text) > 0 /\ text[Len(text)] = ";"
  THEN trim_end_matches(SubSeq(text, 1, Len(text) - 1))
  ELSE text

\* print_block's .map(|line| format!("  {}", line))
IndentLines(lines) == [k \in 1..Len(lines) |-> <<" ", " ">> \o lines[k]]

\* The text of an optional expression of a for statement.
OptionalExpression(expr) ==
  IF expr = NoNode THEN <<>> ELSE print_expression(expr)

RECURSIVE print_declaration(_)
RECURSIVE print_statement(_)

print_var_decl(var_decl) ==
  IF var_decl.initializer = NoNode
  THEN <<"v", "a", "r", " ">> \o var_decl.identifier \o <<";">>
  ELSE <<"v", "a", "r", " ">> \o var_decl.identifier \o <<" ", "=", " ">>
         \o print_expression(var_decl.initializer) \o <<";">>

print_block(declarations) ==
  <<"{", "\n">>
    \o Join(IndentLines(Lines(Join(
              [k \in 1..Len(declarations) |-> print_declaration(declarations[k])],
              <<"\n">>))),
            <<"\n">>)
    \o <<"\n", "}">>

print_while_stmt(condition, do_stmt) ==
  <<"w", "h", "i", "l", "e", "(">> \o print_expression(condition) \o <<")", " ">>
    \o print_statement(do_stmt)

print_for_statement(initializer, condition, update, body) ==
  <<"f", "o", "r", " ", "(">>
    \o trim_end_matches(IF initializer = NoNode THEN <<>>
                        ELSE print_declaration(initializer))
    \o <<";", " ">> \o OptionalExpression(condition)
    \o <<";", " ">> \o OptionalExpression(update)
    \o <<")", " ">> \o print_statement(body)

print_if_stmt(condition, then_stmt, else_stmt) ==
  <<"i", "f", " ", "(">> \o print_expression(condition) \o <<")", " ">>
    \o print_statement(then_stmt)
    \o (IF else_stmt = NoNode THEN <<>>
        ELSE <<" ", "e", "l", "s", "e", " ">> \o print_statement(else_stmt))

print_statement(stmt) ==
  CASE stmt.kind = "ExprStmt" -> print_expression(stmt.expression) \o <<";">>
    [] stmt.kind = "PrintStmt" ->
         <<"p", "r", "i", "n", "t", " ">> \o print_expression(stmt.expression) \o <<";">>
    [] stmt.kind = "Block" -> print_block(stmt.declarations)
    [] stmt.kind = "IfStmt" ->
         print_if_stmt(stmt.condition, stmt.then_stmt, stmt.else_stmt)
    [] stmt.kind = "WhileStmt" -> print_while_stmt(stmt.condition, stmt.do_stmt)
    [] stmt.kind = "ForStmt" ->
         print_for_statement(stmt.initializer, stmt.condition, stmt.update, stmt.body)

print_declaration(decl) ==
  IF decl.kind = "VarDecl" THEN print_var_decl(decl)
  ELSE print_statement(decl.statement)

print_program(prog) ==
  Join([k \in 1..Len(prog) |-> print_declaration(prog[k])], <<"\n">>)

(***************************************************************************)
(* f64 arithmetic on the canonical decimal form of a Number: an optional   *)
(* "-", the integer digits, "." and the fraction digits.  Sums,            *)
(* differences and products of decimals of few digits are exact in f64 as  *)
(* they are here; a quotient is exact when its decimal expansion ends      *)
(* within 15 fraction digits and is cut there otherwise.  Division by zero *)
(* gives inf, -inf or NaN, on which no arithmetic is defined here.         *)
(***************************************************************************)
DigitSeq == <<"0", "1", "2", "3", "4", "5", "6", "7", "8", "9">>

DigitValue(c) == (CHOOSE k \in 1..10 : DigitSeq[k] = c) - 1

RECURSIVE DigitsToNat(_)
DigitsToNat(ds) ==
  IF ds = <<>> THEN 0
  ELSE 10 * DigitsToNat(SubSeq(ds, 1, Len(ds) - 1)) + DigitValue(ds[Len(ds)])

RECURSIVE NatToDigits(_)
NatToDigits(n) ==
  IF n < 10 THEN <<DigitSeq[n + 1]>>
  ELSE NatToDigits(n \div 10) \o <<DigitSeq[(n % 10) + 1]>>

RECURSIVE Pow10(_)
Pow10(k) == IF k = 0 THEN 1 ELSE 10 * Pow10(k - 1)

F64Inf == <<"i", "n", "f">>

F64NaN == <<"N", "a", "N">>

F64IsNegative(val) == Head(val) = "-"

F64Magnitude(val) == IF F64IsNegative(val) THEN Tail(val) ELSE val

F64IsFinite(val) == F64Magnitude(val) \notin {F64Inf, F64NaN}

\* The number of fraction digits of a finite value.
FractionDigits(val) == Len(F64Magnitude(val)) - DotIndex(F64Magnitude(val), 1)

\* The digits of a finite value's magnitude, as a natural number.
Mantissa(val) ==
  DigitsToNat(SubSeq(F64Magnitude(val), 1, DotIndex(F64Magnitude(val), 1) - 1)
              \o SubSeq(F64Magnitude(val), DotIndex(F64Magnitude(val), 1) + 1,
                        Len(F64Magnitude(val))))

\* val * 10^k as an integer, for k >= FractionDigits(val).
Scaled(val, k) ==
  (IF F64IsNegative(val) THEN -1 ELSE 1)
    * Mantissa(val) * Pow10(k - FractionDigits(val))

\* The digits of n, padded on the left with zeros to more than k digits.
RECURSIVE PaddedDigits(_, _)
PaddedDigits(ds, k) == IF Len(ds) > k THEN ds ELSE PaddedDigits(<<"0">> \o ds, k)

\* The value n / 10^k of a natural n, negative when neg (also when n = 0:
\* the f64 -0).
FromScaled(neg, n, k) ==
  (IF neg THEN <<"-">> ELSE <<>>)
    \o parse_f64(SubSeq(PaddedDigits(NatToDigits(n), k), 1,
                        Len(PaddedDigits(NatToDigits(n), k)) - k)
                 \o <<".">>
                 \o SubSeq(PaddedDigits(NatToDigits(n), k),
                           Len(PaddedDigits(NatToDigits(n), k)) - k + 1,
                           Len(PaddedDigits(NatToDigits(n), k))))

Abs(n) == IF n < 0 THEN -n ELSE n

Max(a, b) == IF a >= b THEN a ELSE b

FromInteger(n, k, negative_zero) ==
  FromScaled(n < 0 \/ (n = 0 /\ negative_zero), Abs(n), k)

\* -n
F64Neg(val) == IF F64IsNegative(val) THEN Tail(val) ELSE <<"-">> \o val

\* l + r: a zero sum is -0 only when both operands are negative.
F64Add(l, r) ==
  FromInteger(Scaled(l, Max(FractionDigits(l), FractionDigits(r)))
                + Scaled(r, Max(FractionDigits(l), FractionDigits(r))),
              Max(FractionDigits(l), FractionDigits(r)),
              F64IsNegative(l) /\ F64IsNegative(r))

\* l - r
F64Sub(l, r) == F64Add(l, F64Neg(r))

\* l * r: the sign of a zero product is the product of the signs.
F64Mul(l, r) ==
  FromScaled(F64IsNegative(l) # F64IsNegative(r), Mantissa(l) * Mantissa(r),
             FractionDigits(l) + FractionDigits(r))

\* The least number of fraction digits, up to 15, with which a / b is a
\* decimal.
QuotientDigits(a, b) ==
  IF \E j \in 0..15 : (a * Pow10(j)) % b = 0
  THEN CHOOSE j \in 0..15 :
         /\ (a * Pow10(j)) % b = 0
         /\ \A i \in 0..(j - 1) : (a * Pow10(i)) % b # 0
  ELSE 15

\* l / r
F64Div(l, r) ==
  IF Mantissa(r) = 0
  THEN IF Mantissa(l) = 0 THEN F64NaN
       ELSE (IF F64IsNegative(l) # F64IsNegative(r) THEN <<"-">> ELSE <<>>) \o F64Inf
  ELSE FromScaled(F64IsNegative(l) # F64IsNegative(r),
         (Scaled(l, Max(FractionDigits(l), FractionDigits(r)))
            * (IF F64IsNegative(l) THEN -1 ELSE 1)
            * Pow10(QuotientDigits(
                Abs(Scaled(l, Max(FractionDigits(l), FractionDigits(r)))),
                Abs(Scaled(r, Max(FractionDigits(l), FractionDigits(r)))))))
           \div Abs(Scaled(r, Max(FractionDigits(l), FractionDigits(r)))),
         QuotientDigits(
           Abs(Scaled(l, Max(FractionDigits(l), FractionDigits(r)))),
           Abs(Scaled(r, Max(FractionDigits(l), FractionDigits(r))))))

\* l < r
F64Less(l, r) ==
  Scaled(l, Max(FractionDigits(l), FractionDigits(r)))
    < Scaled(r, Max(FractionDigits(l), FractionDigits(r)))

\* l == r: -0 equals 0, NaN equals nothing.
F64Eq(l, r) ==
  IF F64Magnitude(l) = F64NaN \/ F64Magnitude(r) = F64NaN THEN FALSE
  ELSE IF ~F64IsFinite(l) \/ ~F64IsFinite(r) THEN l = r
  ELSE Scaled(l, Max(FractionDigits(l), FractionDigits(r)))
         = Scaled(r, Max(FractionDigits(l), FractionDigits(r)))

(***************************************************************************)
(* Environment: src/src/environment.rs.  An environment is the sequence of *)
(* its frames from the global frame to the innermost one: the last frame   *)
(* is `inner` and the frames before it are `outer`.  A frame maps          *)
(* identifiers to variable states.                                         *)
(***************************************************************************)
Uninitialized == [state |-> "Uninitialized", value |-> NoLiteral]

Initialized(value) == [state |-> "Initialized", value |-> value]

\* HashMap::new()
EmptyFrame == [ident \in {} |-> Uninitialized]

\* HashMap::insert
Insert(frame, ident, state) ==
  [n \in (DOMAIN frame) \cup {ident} |->
     IF n = ident THEN state ELSE frame[n]]

\* Environment::new(None): the global frame alone.
EnvironmentNew == <<EmptyFrame>>

Inner(env) == env[Len(env)]

\* self.outer: the enclosing frames, <<>> for None.
Outer(env) == SubSeq(env, 1, Len(env) - 1)

\* A variant of define that binds the name in the global frame.
define_global(env, ident, value) ==
  [env EXCEPT ![1] =
     Insert(@, ident,
            IF value = NoLiteral THEN Uninitialized ELSE Initialized(value))]

\* Environment::define; value is NoLiteral for None.
define(env, ident, value) ==
  [env EXCEPT ![Len(env)] =
     Insert(@, ident,
            IF value = NoLiteral THEN Uninitialized ELSE Initialized(value))]

RECURSIVE get(_, _)

\* A variant of get for which an uninitialized binding is no binding.
get_initialized(env, ident) ==
  IF ident \in DOMAIN Inner(env) /\ Inner(env)[ident].state = "Initialized"
  THEN Ok(Inner(env)[ident].value, env)
  ELSE IF Outer(env) # <<>> THEN get(Outer(env), ident)
  ELSE Err("UndefinedVariable", env)

\* Environment::get: Ok(value), Err(UnInitializedVariable) or
\* Err(UndefinedVariable).
get(env, ident) ==
  IF ident \in DOMAIN Inner(env)
  THEN IF Inner(env)[ident].state = "Initialized"
       THEN Ok(Inner(env)[ident].value, env)
       ELSE Err("UnInitializedVariable", env)
  ELSE IF Outer(env) # <<>> THEN get(Outer(env), ident)
  ELSE Err("UndefinedVariable", env)

\* Environment::assign, after outer.borrow_mut().assign(..): the frames as
\* the call on the outer frames left them, under the same inner frame.
AssignedOuter(outer, inner) ==
  IF outer.ok THEN Ok(NoNode, Append(outer.st, inner))
  ELSE Err(outer.err, Append(outer.st, inner))

\* A variant of assign that binds an unbound name in the inner frame.
RECURSIVE assign(_, _, _)
assign_defining(env, ident, value) ==
  IF ident \in DOMAIN Inner(env) \/ Outer(env) = <<>>
  THEN Ok(NoNode, [env EXCEPT ![Len(env)] = Insert(@, ident, Initialized(value))])
  ELSE AssignedOuter(assign(Outer(env), ident, value), Inner(env))

\* Environment::assign: the environment after the call, in the st slot.
assign(env, ident, value) ==
  IF ident \in DOMAIN Inner(env)
  THEN Ok(NoNode, [env EXCEPT ![Len(env)] = Insert(@, ident, Initialized(value))])
  ELSE IF Outer(env) # <<>>
  THEN AssignedOuter(assign(Outer(env), ident, value), Inner(env))
  ELSE Err("UndefinedVariable", env)

\* increase_scope, called by the interpreter and not defined in
\* environment.rs: a new innermost frame is pushed.
increase_scope(env) == Append(env, EmptyFrame)

\* reduce_scope, called by the interpreter and not defined in
\* environment.rs: the innermost frame is popped; Err at the global frame.
reduce_scope(env) ==
  IF Len(env) > 1 THEN Ok(NoNode, Outer(env)) ELSE Err("ScopeError", env)

(***************************************************************************)
(* Interpreter, expressions: src/src/interpreter.rs, lines 140 to 377.  An *)
(* interpreter state st holds the environment, the runtime errors reported *)
(* so far (the error reporter) and the lines printed so far.  An           *)
(* evaluation returns the value and the state after it.                    *)
(***************************************************************************)
NilValue == Literal("Nil", <<>>)

BooleanValue(b) == Literal("Boolean", IF b THEN <<"true">> ELSE <<"false">>)

NumberValue(val) == Literal("Number", val)

StringValue(s) == Literal("String", s)

\* impl Display for Literal (src/src/token.rs)
LiteralDisplay(value) ==
  CASE value.kind = "Number" -> f64_to_string(value.val)
    [] value.kind = "String" -> <<"\"">> \o value.val \o <<"\"">>
    [] value.kind = "Boolean" ->
         IF value.val = <<"true">> THEN <<"t", "r", "u", "e">>
         ELSE <<"f", "a", "l", "s", "e">>
    [] value.kind = "Nil" -> <<"n", "i", "l">>

\* #[derive(PartialEq)] of Literal
LiteralEq(l, r) ==
  /\ l.kind = r.kind
  /\ IF l.kind = "Number" THEN F64Eq(l.val, r.val) ELSE l.val = r.val

Value(val, st) == [val |-> val, st |-> st]

\* A variant of RuntimeErrorReport after which nothing is evaluated beyond
\* the current statement.
RuntimeErrorAbort(st, message, args) ==
  [st EXCEPT !.diags = Append(@, [message |-> message, args |-> args]),
             !.control = <<Head(@)>>]

\* self.error_reporter.error(line, column, &format!(message, args))
RuntimeErrorReport(st, message, args) ==
  [st EXCEPT !.diags = Append(@, [message |-> message, args |-> args])]

is_truthy(value) ==
  CASE value.kind = "Nil" -> FALSE
    [] value.kind = "Boolean" -> value.val = <<"true">>
    [] OTHER -> TRUE

\* evaluate_var, the match on self.environment_stack.get(ident).
VarRead(ident, st, found) ==
  IF found.ok THEN Value(found.node, st)
  ELSE IF found.err = "UnInitializedVariable"
  THEN Value(NilValue,
             RuntimeErrorReport(st, "Uninitialized Variable: {}", <<ident>>))
  ELSE Value(NilValue,
             RuntimeErrorReport(st, "Undefined Variable: {}", <<ident>>))

evaluate_var(ident, st) == VarRead(ident, st, get(st.env, ident))

\* evaluate_unary, after self.evaluate_expression(right).
UnaryOn(operator, right) ==
  CASE operator = "Bang" -> Value(BooleanValue(~is_truthy(right.val)), right.st)
    [] operator = "Minus" ->
         IF right.val.kind = "Number"
         THEN Value(NumberValue(F64Neg(right.val.val)), right.st)
         ELSE Value(NilValue,
                    RuntimeErrorReport(right.st, "{}, is not a number",
                                       <<LiteralDisplay(right.val)>>))
    [] OTHER ->
         Value(NilValue,
               RuntimeErrorReport(right.st, "Using {} as unary operator not allowed.",
                                  <<OperatorDisplay(operator)>>))

evaluate_arithmetic(left_val, operator, right_val, st) ==
  CASE left_val.kind = "Number" /\ right_val.kind = "Number" ->
         Value(NumberValue(
                 CASE operator = "Minus" -> F64Sub(left_val.val, right_val.val)
                   [] operator = "Plus" -> F64Add(left_val.val, right_val.val)
                   [] operator = "Slash" -> F64Div(left_val.val, right_val.val)
                   [] operator = "Star" -> F64Mul(left_val.val, right_val.val)),
               st)
    [] left_val.kind = "String" /\ right_val.kind = "String" ->
         IF operator = "Plus"
         THEN Value(StringValue(left_val.val \o right_val.val), st)
         ELSE Value(NilValue,
                    RuntimeErrorReport(st, "Using {} on strings [{}, {}] is not allowed",
                      <<OperatorDisplay(operator), left_val.val, right_val.val>>))
    [] left_val.kind = "String" /\ right_val.kind # "String" ->
         IF operator = "Plus"
         THEN Value(StringValue(left_val.val \o LiteralDisplay(right_val)), st)
         ELSE Value(NilValue,
                    RuntimeErrorReport(st,
                      "Using {} with string and non-string is not allowed",
                      <<OperatorDisplay(operator)>>))
    [] left_val.kind # "String" /\ right_val.kind = "String" ->
         IF operator = "Plus"
         THEN Value(StringValue(right_val.val \o LiteralDisplay(left_val)), st)
         ELSE Value(NilValue,
                    RuntimeErrorReport(st,
                      "Using {} with string and non-string is not allowed",
                      <<OperatorDisplay(operator)>>))
    [] OTHER ->
         Value(NilValue,
               RuntimeErrorReport(st,
                 "Cannot do binary operations on Boolean or Nil types", <<>>))

evaluate_comparator(left_val, operator, right_val, st) ==
  IF left_val.kind = "Number" /\ right_val.kind = "Number"
  THEN Value(BooleanValue(
               CASE operator = "Greater" -> F64Less(right_val.val, left_val.val)
                 [] operator = "GreaterEqual" -> ~F64Less(left_val.val, right_val.val)
                 [] operator = "Less" -> F64Less(left_val.val, right_val.val)
                 [] operator = "LessEqual" -> ~F64Less(right_val.val, left_val.val)),
             st)
  ELSE Value(NilValue,
             RuntimeErrorReport(st, "Cannot use comparators on non-numbers", <<>>))

evaluate_equals(left_val, operator, right_val) ==
  CASE operator = "BangEqual" -> BooleanValue(~LiteralEq(left_val, right_val))
    [] operator = "EqualEqual" -> BooleanValue(LiteralEq(left_val, right_val))

\* evaluate_binary, the match on the operator.
BinaryOn(operator, left_val, right) ==
  CASE operator \in {"Minus", "Plus", "Star", "Slash"} ->
         evaluate_arithmetic(left_val, operator, right.val, right.st)
    [] operator \in {"Greater", "GreaterEqual", "Less", "LessEqual"} ->
         evaluate_comparator(left_val, operator, right.val, right.st)
    [] operator \in {"EqualEqual", "BangEqual"} ->
         Value(evaluate_equals(left_val, operator, right.val), right.st)
    [] OTHER ->
         Value(NilValue,
               RuntimeErrorReport(right.st,
                 "Using {} as a binary operator is not allowed",
                 <<OperatorDisplay(operator)>>))

\* A variant of Assigned that defines the name in the innermost frame when
\* assign returns Err.
AssignedOrDefined(ident, value, assigned) ==
  Value(value.val,
        [value.st EXCEPT !.env = IF assigned.ok THEN assigned.st
                                 ELSE define(assigned.st, ident, value.val)])

\* evaluate_assignment, the match on self.environment_stack.assign(..).
Assigned(ident, value, assigned) ==
  IF assigned.ok THEN Value(value.val, [value.st EXCEPT !.env = assigned.st])
  ELSE Value(NilValue,
             RuntimeErrorReport(value.st, "Undefined variable '{}' in assignment.",
                                <<ident>>))

\* evaluate_assignment, after self.evaluate_expression(value).
AssignmentOn(ident, value) ==
  Assigned(ident, value, assign(value.st.env, ident, value.val))

RECURSIVE evaluate_expression(_, _)

\* evaluate_binary, after self.evaluate_expression(left).
BinaryRight(operator, left, right) ==
  BinaryOn(operator, left.val, evaluate_expression(right, left.st))

\* A variant of LogicalOn that evaluates the right operand whatever the
\* left operand is.
LogicalOnEager(logic_op, left, right) ==
  IF (logic_op = "And" /\ is_truthy(left.val)) \/ (logic_op = "Or" /\ ~is_truthy(left.val))
  THEN evaluate_expression(right, left.st)
  ELSE Value(left.val, evaluate_expression(right, left.st).st)

\* evaluate_logical, after self.evaluate_expression(left).
LogicalOn(logic_op, left, right) ==
  IF (logic_op = "And" /\ is_truthy(left.val)) \/ (logic_op = "Or" /\ ~is_truthy(left.val))
  THEN evaluate_expression(right, left.st)
  ELSE left

evaluate_expression(expression, st) ==
  CASE expression.kind = "Lit" -> Value(expression.value, st)
    [] expression.kind = "Var" -> evaluate_var(expression.identifier, st)
    [] expression.kind = "Grouping" -> evaluate_expression(expression.expression, st)
    [] expression.kind = "Unary" ->
         UnaryOn(expression.operator, evaluate_expression(expression.right, st))
    [] expression.kind = "Binary" ->
         BinaryRight(expression.operator, evaluate_expression(expression.left, st),
                     expression.right)
    [] expression.kind = "Logical" ->
         LogicalOn(expression.logic_op, evaluate_expression(expression.left, st),
                   expression.right)
    [] expression.kind = "Assignment" ->
         AssignmentOn(expression.identifier,
                      evaluate_expression(expression.value, st))

(***************************************************************************)
(* Interpreter, declarations and statements: src/src/interpreter.rs, lines *)
(* 20 to 139.  The interpreter state holds the environment, the runtime    *)
(* errors reported, the lines printed and control: the declarations and    *)
(* statements still to evaluate, innermost first, with a marker where a    *)
(* block or a for statement has its scope to leave and a marker for the    *)
(* loop of a for statement.  depth in a marker and spinning are history    *)
(* fields: the number of frames when the scope was entered, and whether a  *)
(* for loop has gone round without a condition.                            *)
(***************************************************************************)
\* Interpreter::new(), with the program evaluate_program is called on.
InterpreterNew(prog) ==
  [env |-> EnvironmentNew, diags |-> <<>>, out |-> <<>>, control |-> prog,
   spinning |-> FALSE]

\* The end of a Block or of evaluate_for_statement: reduce_scope is due.
ReduceScope(depth) == [kind |-> "ReduceScope", depth |-> depth]

\* The loop of evaluate_for_statement; entered after the body has run.
ForLoop(condition, update, body, depth, entered) ==
  [kind |-> "ForLoop", condition |-> condition, update |-> update,
   body |-> body, depth |-> depth, entered |-> entered]

\* evaluate_declaration: the statement of a statement declaration.
StatementAt(item) == IF item.kind = "Statement" THEN item.statement ELSE item

\* The statement or declaration to evaluate next.
Current(st) == IF st.control = <<>> THEN NoNode ELSE StatementAt(Head(st.control))

\* The current item is done and items are to be evaluated before the rest.
Continue(st, items) == [st EXCEPT !.control = items \o Tail(@)]

\* evaluate_var_decl, after the initializer: value.val is NoLiteral for None.
Defined(ident, value) ==
  Continue([value.st EXCEPT !.env = define(@, ident, value.val)], <<>>)

\* println!("{}", value)
Printed(value) ==
  Continue([value.st EXCEPT !.out = Append(@, LiteralDisplay(value.val))], <<>>)

\* IfStmt, after the condition.
IfOn(stmt, condition_value) ==
  Continue(condition_value.st,
           IF is_truthy(condition_value.val) THEN <<stmt.then_stmt>>
           ELSE IF stmt.else_stmt # NoNode THEN <<stmt.else_stmt>>
           ELSE <<>>)

\* A variant of WhileOn that runs the body once at most.
WhileOnce(stmt, condition_value) ==
  Continue(condition_value.st,
           IF is_truthy(condition_value.val) THEN <<stmt.do_stmt>> ELSE <<>>)

\* WhileStmt, after the condition: the body and the condition again, or
\* the end of the loop.
WhileOn(stmt, condition_value) ==
  Continue(condition_value.st,
           IF is_truthy(condition_value.val) THEN <<stmt.do_stmt, stmt>> ELSE <<>>)

\* if let Err(_) = self.environment_stack.reduce_scope() { error(..) }
Reduced(st, reduced) ==
  IF reduced.ok THEN [st EXCEPT !.env = reduced.st]
  ELSE RuntimeErrorReport(st, "Trying to reduce scope but already at global", <<>>)

\* evaluate_for_statement, the update after the body.
ForUpdated(item, st) ==
  IF item.entered /\ item.update # NoNode
  THEN evaluate_expression(item.update, st).st
  ELSE st

\* A variant of ForOn that does not call reduce_scope after the break.
ForOnKeepingScope(item, cond_value) ==
  IF ~is_truthy(cond_value.val)
  THEN Continue(cond_value.st, <<>>)
  ELSE Continue(cond_value.st, <<item.body, [item EXCEPT !.entered = TRUE]>>)

\* evaluate_for_statement, after the condition: break and reduce_scope, or
\* the body and the loop again.
ForOn(item, cond_value) ==
  IF ~is_truthy(cond_value.val)
  THEN Continue(Reduced(cond_value.st, reduce_scope(cond_value.st.env)), <<>>)
  ELSE Continue(cond_value.st, <<item.body, [item EXCEPT !.entered = TRUE]>>)

(***************************************************************************)
(* The values of the variables a specification does not use.               *)
(***************************************************************************)
IdleScan == ScannerNew(<<>>)

IdleParser == [tokens |-> <<>>, pos |-> 1, diags |-> <<>>]

IdleSync == [ran |-> FALSE, from |-> 0, ok |-> FALSE]

NoRoundTrip ==
  [stage |-> "none", first |-> Err("None", ParserNew), printed |-> <<>>,
   second |-> Err("None", ParserNew)]

\* run has not been called: no stage has run, the process has not exited
\* (exit -1).
IdleRun == [contents |-> <<>>, stages |-> <<>>, exit |-> -1, stdout |-> <<>>]

\* No program is evaluated.
IdleInterp == InterpreterNew(<<>>)

\* All sequences over S of length at most n.
SeqsUpTo(S, n) == UNION {[1..k -> S] : k \in 0..n}

(***************************************************************************)
(* ScanSpec: scan_tokens on every source text of at most MaxSrcLen         *)
(* characters of ScanAlphabet.                                             *)
(***************************************************************************)
ScanAlphabet == {"\"", "1", ".", "a", "\n", "=", "/", "*"}

ScanInit ==
  /\ pc = "scan"
  /\ \E source \in SeqsUpTo(ScanAlphabet, MaxSrcLen) : scan = ScannerNew(source)
  /\ parser = IdleParser
  /\ program = <<>>
  /\ sync = IdleSync
  /\ rt = NoRoundTrip
  /\ run = IdleRun
  /\ interp = IdleInterp

\* One iteration of the main loop of scan_tokens.
ScanChar ==
  /\ pc = "scan"
  /\ Peek(scan) # None
  /\ scan' = ScanStep(scan)
  /\ UNCHANGED <<pc, parser, program, sync, rt, run, interp>>

\* The loop ends at the end of the input and the Eof token is pushed.
ScanEnd ==
  /\ pc = "scan"
  /\ Peek(scan) = None
  /\ scan' = ScanEof(scan)
  /\ pc' = "scanned"
  /\ UNCHANGED <<parser, program, sync, rt, run, interp>>

ScanNext == ScanChar \/ ScanEnd

ScanSpec == ScanInit /\ [][ScanNext]_vars

(***************************************************************************)
(* Positions in a source text, counted from 1.                             *)
(***************************************************************************)
\* The index of the first c at or after index k, or 0.
RECURSIVE IndexFrom(_, _, _)
IndexFrom(s, c, k) ==
  IF k > Len(s) THEN 0 ELSE IF s[k] = c THEN k ELSE IndexFrom(s, c, k + 1)

\* The index of the last newline before index k, or 0.
RECURSIVE LastNewlineBefore(_, _)
LastNewlineBefore(s, k) ==
  IF k <= 1 THEN 0
  ELSE IF s[k - 1] = "\n" THEN k - 1 ELSE LastNewlineBefore(s, k - 1)

\* The line of the character at index k: 1 + the newlines before it.
LineOf(s, k) == 1 + Cardinality({j \in 1..(k - 1) : s[j] = "\n"})

\* The column of the character at index k: its place within its line.
ColumnOf(s, k) == k - LastNewlineBefore(s, k)

\* The index of the last character of the run of digits that starts at k.
RECURSIVE DigitRunEnd(_, _)
DigitRunEnd(s, k) ==
  IF k + 1 <= Len(s) /\ is_ascii_digit(s[k + 1]) THEN DigitRunEnd(s, k + 1) ELSE k

TokenTypes(tokens) == [k \in 1..Len(tokens) |-> tokens[k].token_type]

(***************************************************************************)
(* Claims about the scanner, under ScanSpec.                               *)
(***************************************************************************)
\* C1, state part: while scanning no Eof token has been pushed; when
\* scan_tokens has returned the whole input was consumed and the tokens hold
\* exactly one Eof token, the last one.
C1_EofState ==
  /\ pc = "scan" => \A k \in 1..Len(scan.tokens) : scan.tokens[k].token_type # "Eof"
  /\ pc = "scanned" =>
       /\ scan.i = Len(scan.src) + 1
       /\ Len(scan.tokens) >= 1
       /\ \A k \in 1..Len(scan.tokens) :
            (scan.tokens[k].token_type = "Eof") <=> (k = Len(scan.tokens))

\* C1, termination part: every step of scan_tokens either returns or consumes
\* at least one character of the finite input, whether or not it reports an
\* error, and never takes back a token.
C1_Progress ==
  (pc = "scan") =>
     /\ pc' = "scanned" \/ (pc' = "scan" /\ scan'.i > scan.i)
     /\ Len(scan'.tokens) >= Len(scan.tokens)
     /\ SubSeq(scan'.tokens, 1, Len(scan.tokens)) = scan.tokens

\* C1: for every finite source text scan_tokens terminates and returns a token
\* sequence with exactly one Eof token, placed last, also when lexical errors
\* were reported on the way.
C1_ScanEndsWithOneEof == [](C1_EofState) /\ [][C1_Progress]_vars

\* C1's case: a scan that reported an error, went on to push a token for the
\* text after the error, and ended with Eof.
C1_Witness ==
  /\ pc = "scanned"
  /\ scan.src = <<"*", "/", "a">>
  /\ Len(scan.errors) = 1
  /\ TokenTypes(scan.tokens) = <<"Identifier", "Eof">>

\* C2: every token emitted by scan_tokens carries the line and the column of
\* the first character of its lexeme, multi-character tokens included.
C2_TokenAtFirstCharacter ==
  \A k \in 1..Len(scan.tokens) :
     scan.tokens[k].token_type # "Eof" =>
        /\ scan.tokens[k].line = LineOf(scan.src, scan.starts[k])
        /\ scan.tokens[k].column = ColumnOf(scan.src, scan.starts[k])

\* C3: for every terminated string literal in the source, the String token's
\* literal payload is exactly the characters between the opening and the
\* closing double quote.
C3_StringPayload ==
  \A k \in 1..Len(scan.tokens) :
     scan.tokens[k].token_type = "String" =>
        LET open == scan.starts[k]
            close == IndexFrom(scan.src, "\"", open + 1)
        IN /\ close # 0
           /\ scan.tokens[k].literal = Literal("String", SubSeq(scan.src, open + 1, close - 1))

\* The main loop is at an opening quote and no closing quote follows.
UnclosedStringAhead ==
  /\ pc = "scan"
  /\ Peek(scan) = "\""
  /\ IndexFrom(scan.src, "\"", scan.i + 1) = 0

\* C4 as stated: when a string literal is not closed, no String token is
\* emitted for it, one error is reported, and scanning resumes at the next
\* line, so that the tokens of the following lines are still emitted.
C4_ResumesAtNextLine ==
  [][(UnclosedStringAhead /\ IndexFrom(scan.src, "\n", scan.i + 1) # 0) =>
       /\ scan'.tokens = scan.tokens
       /\ Len(scan'.errors) = Len(scan.errors) + 1
       /\ scan'.i = IndexFrom(scan.src, "\n", scan.i + 1) + 1]_vars

\* C4 amended: when a string literal is not closed, no String token is emitted
\* for it, exactly one error ("Unterminated string.") is reported, and the
\* rest of the input, later lines included, is consumed as part of the
\* string: no token of a following line is emitted, only Eof follows.
C4_UnclosedStringConsumesRest ==
  [][UnclosedStringAhead =>
       /\ scan'.tokens = scan.tokens
       /\ Len(scan'.errors) = Len(scan.errors) + 1
       /\ scan'.errors[Len(scan'.errors)].message = "Unterminated string."
       /\ scan'.i = Len(scan.src) + 1]_vars

\* C4's case: an unclosed string with a following line that holds an
\* identifier; the scan reported the error and emitted nothing but Eof.
C4_Witness ==
  /\ pc = "scanned"
  /\ scan.src = <<"\"", "1", "\n", "a">>
  /\ Len(scan.errors) = 1
  /\ scan.errors[1].message = "Unterminated string."
  /\ TokenTypes(scan.tokens) = <<"Eof">>

\* C5: a '.' is consumed into a number only when a digit follows it: for
\* digits followed by '.' and then a non-digit or the end of the input, the
\* Number token is that of the digits alone and the '.' is scanned as a Dot
\* token of its own.
C5_TrailingDotNotConsumed ==
  \A k \in 1..Len(scan.tokens) :
     scan.tokens[k].token_type = "Number" =>
        LET s == scan.starts[k]
            e == DigitRunEnd(scan.src, s)
        IN (/\ e + 1 <= Len(scan.src)
            /\ scan.src[e + 1] = "."
            /\ ~(e + 2 <= Len(scan.src) /\ is_ascii_digit(scan.src[e + 2])))
           => /\ scan.tokens[k].lexeme = SubSeq(scan.src, s, e)
              /\ pc = "scanned" =>
                   /\ k + 1 <= Len(scan.tokens)
                   /\ scan.tokens[k + 1].token_type = "Dot"
                   /\ scan.starts[k + 1] = e + 1

(***************************************************************************)
(* Token sequences given to the parser.  A sequence of token kinds becomes *)
(* the tokens of one line, the k-th at column k, ended by the Eof token    *)
(* that scan_tokens always pushes last.                                    *)
(***************************************************************************)
\* The token the scanner builds for a kind: its lexeme and literal.
TokenOfKind(kind, line, column) ==
  CASE kind = "Num1" -> Token("Number", <<"1">>, Literal("Number", parse_f64(<<"1">>)), line, column)
    [] kind = "Num2" -> Token("Number", <<"2">>, Literal("Number", parse_f64(<<"2">>)), line, column)
    [] kind = "Num3" -> Token("Number", <<"3">>, Literal("Number", parse_f64(<<"3">>)), line, column)
    [] kind = "Num0" -> Token("Number", <<"0">>, Literal("Number", parse_f64(<<"0">>)), line, column)
    [] kind = "StrA" ->
         Token("String", <<"\"", "a", "\"">>, Literal("String", <<"a">>), line, column)
    [] kind = "StrB" ->
         Token("String", <<"\"", "b", "\"">>, Literal("String", <<"b">>), line, column)
    [] kind = "IdA" -> Token("Identifier", <<"a">>, NoLiteral, line, column)
    [] kind = "IdI" -> Token("Identifier", <<"i">>, NoLiteral, line, column)
    [] kind = "IdX" -> Token("Identifier", <<"x">>, NoLiteral, line, column)
    [] kind = "True" ->
         Token("True", <<"t", "r", "u", "e">>, Literal("Boolean", <<"true">>), line, column)
    [] kind = "False" ->
         Token("False", <<"f", "a", "l", "s", "e">>, Literal("Boolean", <<"false">>), line, column)
    [] kind = "Nil" -> Token("Nil", <<"n", "i", "l">>, Literal("Nil", <<>>), line, column)
    [] kind = "Print" -> Token("Print", <<"p", "r", "i", "n", "t">>, NoLiteral, line, column)
    [] kind = "Var" -> Token("Var", <<"v", "a", "r">>, NoLiteral, line, column)
    [] kind = "If" -> Token("If", <<"i", "f">>, NoLiteral, line, column)
    [] kind = "Else" -> Token("Else", <<"e", "l", "s", "e">>, NoLiteral, line, column)
    [] kind = "While" -> Token("While", <<"w", "h", "i", "l", "e">>, NoLiteral, line, column)
    [] kind = "For" -> Token("For", <<"f", "o", "r">>, NoLiteral, line, column)
    [] kind = "And" -> Token("And", <<"a", "n", "d">>, NoLiteral, line, column)
    [] kind = "Or" -> Token("Or", <<"o", "r">>, NoLiteral, line, column)
    [] kind = "LeftParen" -> Token(kind, <<"(">>, NoLiteral, line, column)
    [] kind = "RightParen" -> Token(kind, <<")">>, NoLiteral, line, column)
    [] kind = "LeftBrace" -> Token(kind, <<"{">>, NoLiteral, line, column)
    [] kind = "RightBrace" -> Token(kind, <<"}">>, NoLiteral, line, column)
    [] kind = "Semicolon" -> Token(kind, <<";">>, NoLiteral, line, column)
    [] kind = "Eof" -> Token(kind, <<>>, NoLiteral, line, column)
    [] OTHER -> Token(kind, OperatorDisplay(kind), NoLiteral, line, column)

TokensOf(kinds) ==
  [k \in 1..(Len(kinds) + 1) |->
     IF k <= Len(kinds) THEN TokenOfKind(kinds[k], 1, k) ELSE TokenOfKind("Eof", 1, k)]

(***************************************************************************)
(* ExprSpec: parse_expression on a token sequence, print_expression on the *)
(* expression it returns, then scan_tokens and parse_expression on the     *)
(* printed text.                                                           *)
(***************************************************************************)
\* Operators of the four binary levels over number literals.
LadderKinds == {"Num1", "Num2", "Num3", "Plus", "Star", "Less", "EqualEqual", "Minus"}

\* Assignment targets, groupings and the kinds of literal.
TargetKinds == {"Num1", "IdA", "StrB", "True", "Equal", "LeftParen", "RightParen", "Plus"}

ExprAlphabets == {LadderKinds, TargetKinds}

\* The operators of the four binary levels.
BinaryLevels == {EqualityOps, ComparisonOps, TermOps, FactorOps}

\* Chains of three and four number literals under operators of one level.
BinaryChains ==
  UNION {{<<"Num1", op1, "Num2", op2, "Num3">> : op1 \in ops, op2 \in ops}
           \cup {<<"Num1", op1, "Num2", op2, "Num3", op3, "Num1">> :
                   op1 \in ops, op2 \in ops, op3 \in ops} : ops \in BinaryLevels}

\* and and or in chains, under an assignment and beside an equality.
LogicalChains ==
  UNION {{<<"IdA", l1, "Num1", l2, "Num2">> : l2 \in {"And", "Or"}}
           \cup {<<"IdA", "Equal", "Num1", l1, "Num2">>,
                 <<"Num1", l1, "Num2", "EqualEqual", "Num3">>,
                 <<"Num1", "EqualEqual", "Num2", l1, "Num3">>} : l1 \in {"And", "Or"}}

ExprInit ==
  /\ pc = "expr"
  /\ scan = IdleScan
  /\ \E kinds \in UNION {SeqsUpTo(alphabet, MaxExprToks) : alphabet \in ExprAlphabets}
                  \cup BinaryChains \cup LogicalChains :
       parser = [tokens |-> TokensOf(kinds), pos |-> 1, diags |-> <<>>]
  /\ program = <<>>
  /\ sync = IdleSync
  /\ rt = NoRoundTrip
  /\ run = IdleRun
  /\ interp = IdleInterp

\* Parser::new(tokens).parse_expression()
ParseExpr ==
  /\ pc = "expr"
  /\ LET r == parse_expression(parser.tokens, ParserNew)
     IN /\ rt' = [rt EXCEPT !.stage = "parsed", !.first = r]
        /\ parser' = [parser EXCEPT !.pos = r.st.pos, !.diags = r.st.diags]
  /\ pc' = "parsed"
  /\ UNCHANGED <<scan, program, sync, run, interp>>

\* PrettyPrinter::print_expression on the expression parsed.
PrintExpr ==
  /\ pc = "parsed"
  /\ rt.first.ok
  /\ rt' = [rt EXCEPT !.stage = "printed", !.printed = print_expression(rt.first.node)]
  /\ pc' = "printed"
  /\ UNCHANGED <<scan, parser, program, sync, run, interp>>

\* Scanner::new(printed).scan_tokens()
RescanExpr ==
  /\ pc = "printed"
  /\ scan' = scan_tokens(rt.printed)
  /\ rt' = [rt EXCEPT !.stage = "rescanned"]
  /\ pc' = "rescanned"
  /\ UNCHANGED <<parser, program, sync, run, interp>>

\* Parser::new(tokens of the printed text).parse_expression()
ReparseExpr ==
  /\ pc = "rescanned"
  /\ rt' = [rt EXCEPT !.stage = "reparsed",
                      !.second = parse_expression(scan.tokens, ParserNew)]
  /\ pc' = "reparsed"
  /\ UNCHANGED <<scan, parser, program, sync, run, interp>>

ExprNext == ParseExpr \/ PrintExpr \/ RescanExpr \/ ReparseExpr

ExprSpec == ExprInit /\ [][ExprNext]_vars

(***************************************************************************)
(* Claims about parse_expression and print_expression, under ExprSpec.     *)
(***************************************************************************)
\* The level of a binary operator on the ladder equality < comparison < term
\* < factor.
Level(op) ==
  CASE op \in EqualityOps -> 1
    [] op \in ComparisonOps -> 2
    [] op \in {"Plus", "Minus"} -> 3
    [] op \in {"Star", "Slash"} -> 4

\* No Binary node has as a direct (unparenthesised) child a Binary node of a
\* lower level, nor as its right child one of its own level; the operand of
\* a Unary node is a unary or primary expression.
RECURSIVE PrecedenceOrdered(_)
PrecedenceOrdered(e) ==
  CASE e.kind = "Binary" ->
         /\ e.left.kind = "Binary" => Level(e.left.operator) >= Level(e.operator)
         /\ e.right.kind = "Binary" => Level(e.right.operator) > Level(e.operator)
         /\ PrecedenceOrdered(e.left)
         /\ PrecedenceOrdered(e.right)
    [] e.kind = "Unary" ->
         /\ e.right.kind \in {"Lit", "Var", "Grouping", "Unary"}
         /\ PrecedenceOrdered(e.right)
    [] e.kind = "Grouping" -> PrecedenceOrdered(e.expression)
    [] e.kind = "Logical" -> PrecedenceOrdered(e.left) /\ PrecedenceOrdered(e.right)
    [] e.kind = "Assignment" -> PrecedenceOrdered(e.value)
    [] OTHER -> TRUE

\* The right operand of no Binary node is an unparenthesised Binary node of
\* the same level.
RECURSIVE RightOperandsHigher(_)
RightOperandsHigher(e) ==
  CASE e.kind = "Binary" ->
         /\ e.right.kind = "Binary" => Level(e.right.operator) # Level(e.operator)
         /\ RightOperandsHigher(e.left)
         /\ RightOperandsHigher(e.right)
    [] e.kind = "Unary" -> RightOperandsHigher(e.right)
    [] e.kind = "Grouping" -> RightOperandsHigher(e.expression)
    [] e.kind = "Logical" -> RightOperandsHigher(e.left) /\ RightOperandsHigher(e.right)
    [] e.kind = "Assignment" -> RightOperandsHigher(e.value)
    [] OTHER -> TRUE

LitNumber(digits) == Lit(Literal("Number", parse_f64(digits)))

ExprParsed == pc \in {"parsed", "printed", "rescanned", "reparsed"}

\* The first parse took the whole token sequence up to Eof without a
\* diagnostic.
ValidFirst ==
  /\ rt.first.ok
  /\ rt.first.st.diags = <<>>
  /\ rt.first.st.pos = Len(parser.tokens)

BinaryKinds == {"Plus", "Minus", "Star", "Less", "EqualEqual"}

\* C6: the parser honours the ladder equality < comparison < term < factor <
\* unary < primary: in every expression parsed, the Binary node of the
\* higher-precedence operator is a child of the lower-precedence one, and
\* for operators lo below hi on the ladder, 1 lo 2 hi 3 parses as
\* Binary(lo, 1, Binary(hi, 2, 3)) and 1 hi 2 lo 3 as
\* Binary(lo, Binary(hi, 1, 2), 3); so 1 + 2 * 3 is Binary(+, 1, Binary(*, 2, 3)).
C6_PrecedenceLadder ==
  ExprParsed =>
    /\ rt.first.ok => PrecedenceOrdered(rt.first.node)
    /\ \A lo \in BinaryKinds : \A hi \in BinaryKinds :
         Level(lo) < Level(hi) =>
           /\ parser.tokens = TokensOf(<<"Num1", lo, "Num2", hi, "Num3">>) =>
                /\ ValidFirst
                /\ rt.first.node =
                     Binary(LitNumber(<<"1">>), lo,
                            Binary(LitNumber(<<"2">>), hi, LitNumber(<<"3">>)))
           /\ parser.tokens = TokensOf(<<"Num1", hi, "Num2", lo, "Num3">>) =>
                /\ ValidFirst
                /\ rt.first.node =
                     Binary(Binary(LitNumber(<<"1">>), hi, LitNumber(<<"2">>)),
                            lo, LitNumber(<<"3">>))

\* C6's case: 1 + 2 * 3 has been parsed as Binary(+, 1, Binary(*, 2, 3)).
C6_Witness ==
  /\ pc = "parsed"
  /\ parser.tokens = TokensOf(<<"Num1", "Plus", "Num2", "Star", "Num3">>)
  /\ rt.first.node =
       Binary(LitNumber(<<"1">>), "Plus",
              Binary(LitNumber(<<"2">>), "Star", LitNumber(<<"3">>)))

\* C7: when '=' follows an expression that is not a bare variable reference
\* and the right-hand side has been parsed, parse_assignment reports "Invalid
\* assignment target.", returns Ok with the left-hand expression unchanged,
\* and has consumed the tokens of the right-hand side.
C7_InvalidAssignmentTarget ==
  ExprParsed =>
    LET toks == parser.tokens
        target == logical(toks, ParserNew)
    IN (/\ target.ok
        /\ check(toks, target.st, "Equal")
        /\ target.node.kind # "Var"
        /\ parse_assignment(toks, NextToken(toks, target.st)).ok)
       => /\ rt.first.ok
          /\ rt.first.node = target.node
          /\ rt.first.st.pos = parse_assignment(toks, NextToken(toks, target.st)).st.pos
          /\ rt.first.st.pos > target.st.pos + 1
          /\ rt.first.st.diags =
               Append(parse_assignment(toks, NextToken(toks, target.st)).st.diags,
                      "Invalid assignment target.")

\* C7's case: ( a ) = 1 was parsed: the grouping is returned, the error is
\* reported, and the parser stands behind the right-hand side, at Eof.
C7_Witness ==
  /\ pc = "parsed"
  /\ parser.tokens = TokensOf(<<"LeftParen", "IdA", "RightParen", "Equal", "Num1">>)
  /\ rt.first.ok
  /\ rt.first.node = Grouping(Var(<<"a">>))
  /\ rt.first.st.diags = <<"Invalid assignment target.">>
  /\ rt.first.st.pos = 6

\* C10 as stated: for every expression e obtained by parsing a valid token
\* sequence, scanning and parsing the pretty printer's rendering of e yields
\* an expression structurally equal to e.
C10_RoundTrip ==
  (pc = "reparsed" /\ ValidFirst) =>
     /\ rt.second.ok
     /\ rt.second.node = rt.first.node

\* An expression built from number, boolean and nil literals, variable
\* references and assignments of such expressions.
RECURSIVE PlainExpr(_)
PlainExpr(e) ==
  CASE e.kind = "Lit" -> e.value.kind \in {"Number", "Boolean", "Nil"}
    [] e.kind = "Var" -> TRUE
    [] e.kind = "Assignment" -> PlainExpr(e.value)
    [] OTHER -> FALSE

\* C10 amended: the round trip holds for the expressions that print_expression
\* renders in source syntax: a number, boolean or nil literal, a variable
\* reference, or an assignment whose value is such an expression.  For these
\* the printed text scans without error and parses, up to Eof and without a
\* diagnostic, to an expression structurally equal to e.
C10_RoundTripOfPlainExpr ==
  (pc = "reparsed" /\ ValidFirst /\ PlainExpr(rt.first.node)) =>
     /\ scan.errors = <<>>
     /\ rt.second.ok
     /\ rt.second.node = rt.first.node
     /\ rt.second.st.diags = <<>>
     /\ rt.second.st.pos = Len(scan.tokens)

\* C10's case: a = a = 1 was parsed, printed as "a = a = 1", scanned and
\* parsed again to the same nested assignment.
C10_Witness ==
  /\ pc = "reparsed"
  /\ ValidFirst
  /\ rt.first.node = Assignment(<<"a">>, Assignment(<<"a">>, LitNumber(<<"1">>)))
  /\ rt.printed = <<"a", " ", "=", " ", "a", " ", "=", " ", "1">>
  /\ rt.second.node = rt.first.node

(***************************************************************************)
(* ProgSpec: parse_program on a token sequence, one round of its loop per  *)
(* step.                                                                   *)
(***************************************************************************)
\* Expression statements, print statements, variable declarations, blocks.
RecoveryKinds ==
  {"Num1", "IdA", "Semicolon", "Print", "Var", "LeftBrace", "RightBrace", "Equal"}

\* What follows the head of an if, while or for statement.
ControlKinds == {"Num1", "Semicolon", "RightParen", "Else", "Print", "LeftBrace"}

ProgFamilies ==
  { [head |-> <<>>, kinds |-> RecoveryKinds],
    [head |-> <<"If", "LeftParen", "Num1", "RightParen">>, kinds |-> ControlKinds],
    [head |-> <<"While", "LeftParen", "Num1", "RightParen">>, kinds |-> ControlKinds],
    [head |-> <<"For", "LeftParen">>, kinds |-> ControlKinds] }

ProgInit ==
  /\ pc = "prog"
  /\ scan = IdleScan
  /\ \E family \in ProgFamilies : \E kinds \in SeqsUpTo(family.kinds, MaxProgToks) :
       parser = [tokens |-> TokensOf(family.head \o kinds), pos |-> 1, diags |-> <<>>]
  /\ program = <<>>
  /\ sync = IdleSync
  /\ rt = NoRoundTrip
  /\ run = IdleRun
  /\ interp = IdleInterp

ParserState == [pos |-> parser.pos, diags |-> parser.diags]

\* The round's Ok arm: program.push(declaration).
Pushed(declaration) ==
  /\ declaration.ok
  /\ program' = Append(program, declaration.node)
  /\ parser' = [parser EXCEPT !.pos = declaration.st.pos,
                              !.diags = declaration.st.diags]

\* A variant of ProgramPush that pushes the declaration and leaves the token
\* iterator where it was.
ProgramPushInPlace ==
  /\ pc = "prog"
  /\ ~AtEnd(parser.tokens, ParserState)
  /\ parse_declaration(parser.tokens, ParserState).ok
  /\ program' = Append(program, parse_declaration(parser.tokens, ParserState).node)
  /\ sync' = IdleSync
  /\ UNCHANGED <<pc, scan, parser, rt, run, interp>>

\* parse_program, a round in which parse_declaration returns Ok.
ProgramPush ==
  /\ pc = "prog"
  /\ ~AtEnd(parser.tokens, ParserState)
  /\ Pushed(parse_declaration(parser.tokens, ParserState))
  /\ sync' = IdleSync
  /\ UNCHANGED <<pc, scan, rt, run, interp>>

\* The round's Err arm, after self.synchronize() has returned.
Synchronized(from, recovered, ok) ==
  /\ recovered.ok = ok
  /\ parser' = [parser EXCEPT !.pos = recovered.st.pos,
                              !.diags = recovered.st.diags]
  /\ sync' = [ran |-> TRUE, from |-> from, ok |-> ok]

\* The round's Err arm: synchronize runs from where parse_declaration
\* stopped.
Failed(declaration, ok) ==
  /\ ~declaration.ok
  /\ Synchronized(declaration.st.pos,
                  synchronize(parser.tokens, declaration.st), ok)

\* parse_program, a round in which parse_declaration returns Err and
\* synchronize returns Ok.
ProgramSynchronize ==
  /\ pc = "prog"
  /\ ~AtEnd(parser.tokens, ParserState)
  /\ Failed(parse_declaration(parser.tokens, ParserState), TRUE)
  /\ UNCHANGED <<pc, scan, program, rt, run, interp>>

\* parse_program, a round in which synchronize returns Err(UnexpectedEOF):
\* break.
ProgramBreak ==
  /\ pc = "prog"
  /\ ~AtEnd(parser.tokens, ParserState)
  /\ Failed(parse_declaration(parser.tokens, ParserState), FALSE)
  /\ pc' = "done"
  /\ UNCHANGED <<scan, program, rt, run, interp>>

\* parse_program, the loop ends with the iterator exhausted.
ProgramEnd ==
  /\ pc = "prog"
  /\ AtEnd(parser.tokens, ParserState)
  /\ pc' = "done"
  /\ UNCHANGED <<scan, parser, program, sync, rt, run, interp>>

ProgNext == ProgramPush \/ ProgramSynchronize \/ ProgramBreak \/ ProgramEnd

ProgSpec == ProgInit /\ [][ProgNext]_vars

(***************************************************************************)
(* Claims about synchronize and parse_program, under ProgSpec.             *)
(***************************************************************************)
\* C8: after a parse error, synchronize resumes parsing at the token
\* immediately after a ';' or at a statement-start keyword (class, fun, var,
\* for, if, while, print, '{', return): when it has returned Ok, the token
\* before the parser's position is a ';' or the token at its position is
\* such a keyword.
C8_SynchronizeResumePoint ==
  (sync.ran /\ sync.ok) =>
     \/ /\ parser.pos > 1
        /\ parser.tokens[parser.pos - 1].token_type = "Semicolon"
     \/ /\ parser.pos <= Len(parser.tokens)
        /\ parser.tokens[parser.pos].token_type \in SyncKeywords

\* Valid statements that follow the statement missing its ';', with the
\* declarations they stand for.
FollowingStatements ==
  { [kinds |-> <<"Print", "Num1", "Semicolon">>,
     declarations |-> <<StatementDecl(PrintStmt(LitNumber(<<"1">>)))>>],
    [kinds |-> <<"Var", "IdA", "Semicolon">>,
     declarations |-> <<VarDecl(<<"a">>, NoNode)>>],
    [kinds |-> <<"LeftBrace", "RightBrace">>,
     declarations |-> <<StatementDecl(Block(<<>>))>>],
    [kinds |-> <<"LeftBrace", "RightBrace", "IdA", "Semicolon">>,
     declarations |-> <<StatementDecl(Block(<<>>)),
                        StatementDecl(ExprStmt(Var(<<"a">>)))>>] }

IsSuffix(s, t) ==
  /\ Len(s) <= Len(t)
  /\ SubSeq(t, Len(t) - Len(s) + 1, Len(t)) = s

\* C9: a program with exactly one missing ';' (the expression statement 1
\* without its ';', followed by valid statements) yields exactly one
\* diagnostic, and all the valid statements that follow appear in the
\* program parse_program returns.
C9_OneMissingSemicolon ==
  pc = "done" =>
    \A following \in FollowingStatements :
      parser.tokens = TokensOf(<<"Num1">> \o following.kinds) =>
        /\ Len(parser.diags) = 1
        /\ IsSuffix(following.declarations, program)

(***************************************************************************)
(* RunSpec: run(contents) of src/src/main.rs on a bounded source text, one *)
(* step per pipeline stage with the check that follows it.  run.stages is  *)
(* a history field: the stages that have run, in order.                    *)
(***************************************************************************)
RunAlphabet == {"1", "a", ";", "=", "\"", "*", "/", "\n"}

RunInit ==
  /\ pc = "run"
  /\ scan = IdleScan
  /\ parser = IdleParser
  /\ program = <<>>
  /\ sync = IdleSync
  /\ rt = NoRoundTrip
  /\ \E contents \in SeqsUpTo(RunAlphabet, MaxSrcLen) :
       run = [IdleRun EXCEPT !.contents = contents]
  /\ interp = IdleInterp

RanStage(r, stage) == [r EXCEPT !.stages = Append(@, stage)]

\* A variant of main_check that never exits.
main_check_never_exits(error_reporter_had_error, r) == r

\* check(error_reporter): process::exit(65) if any error was reported.
main_check(error_reporter_had_error, r) ==
  IF error_reporter_had_error THEN [r EXCEPT !.exit = 65] ELSE r

\* run, lines 113 to 115, reached when the process has not exited.
PrettyPrinted(r, prog) ==
  IF r.exit = 65 THEN r
  ELSE [r EXCEPT !.stages = Append(@, "print"),
                 !.stdout = print_program(prog) \o <<"\n">>]

Scanned(sc) ==
  /\ scan' = sc
  /\ run' = main_check(sc.errors # <<>>, RanStage(run, "scan"))

\* run, lines 103 to 106: scanning and its check.
RunScanning ==
  /\ pc = "run"
  /\ Scanned(scan_tokens(run.contents))
  /\ pc' = IF run'.exit = 65 THEN "exited" ELSE "scanned"
  /\ UNCHANGED <<parser, program, sync, rt, interp>>

Parsed(result) ==
  /\ parser' = [tokens |-> scan.tokens, pos |-> result.st.pos,
                diags |-> result.st.diags]
  /\ program' = result.program
  /\ run' = PrettyPrinted(main_check(had_error(result.st), RanStage(run, "parse")),
                          result.program)

\* run, lines 108 to 115: parsing, its check, and pretty printing.  The
\* interpretation stage, lines 117 to 120, is commented out.
RunParsing ==
  /\ pc = "scanned"
  /\ Parsed(parse_program(scan.tokens))
  /\ pc' = IF run'.exit = 65 THEN "exited" ELSE "returned"
  /\ UNCHANGED <<scan, sync, rt, interp>>

RunNext == RunScanning \/ RunParsing

RunSpec == RunInit /\ [][RunNext]_vars

StagesRun == {run.stages[k] : k \in 1..Len(run.stages)}

\* C11: the pipeline halts before the next stage as soon as a stage has
\* reported an error: the parser has run only if scanning reported no
\* error, pretty printing has run only if neither scanning nor parsing
\* reported an error, evaluation never runs after an error, and a stage
\* that reported an error is the last one to run (the process has exited
\* with code 65).
C11_PipelineHalts ==
  /\ "parse" \in StagesRun => scan.errors = <<>>
  /\ "print" \in StagesRun => (scan.errors = <<>> /\ parser.diags = <<>>)
  /\ "evaluate" \in StagesRun => (scan.errors = <<>> /\ parser.diags = <<>>)
  /\ ("scan" \in StagesRun /\ scan.errors # <<>>) =>
        (pc = "exited" /\ run.exit = 65 /\ run.stages = <<"scan">>)
  /\ ("parse" \in StagesRun /\ parser.diags # <<>>) =>
        (pc = "exited" /\ run.exit = 65 /\ run.stages = <<"scan", "parse">>)

\* C11's case: scanning reported an error (an unterminated string) and the
\* process exited before the parser ran.
C11_Witness ==
  /\ pc = "exited"
  /\ run.contents = <<"1", ";", "\"">>
  /\ scan.errors # <<>>
  /\ run.stages = <<"scan">>
  /\ parser = IdleParser

(***************************************************************************)
(* EvalSpec: evaluate_program on the program parse_program returns for a   *)
(* token sequence.  One action per kind of declaration and statement.      *)
(***************************************************************************)
\* print L op R ; print 3 ;
BinaryOperands == {"Num1", "Num2", "StrA", "StrB", "True", "Nil", "IdA"}

BinaryOperators == {"Plus", "Minus", "Star", "Slash", "Less", "EqualEqual"}

BinaryPrograms ==
  {<<"Print", l, op, r, "Semicolon", "Print", "Num3", "Semicolon">> :
     l \in BinaryOperands, op \in BinaryOperators, r \in BinaryOperands}

\* print op R ; print 3 ;
UnaryPrograms ==
  {<<"Print", op, r, "Semicolon", "Print", "Num3", "Semicolon">> :
     op \in {"Minus", "Bang"}, r \in BinaryOperands}

\* var a = 1 ; print L op ( a = 2 ) ; print a ;
LogicalPrograms ==
  {<<"Var", "IdA", "Equal", "Num1", "Semicolon",
     "Print", l, op, "LeftParen", "IdA", "Equal", "Num2", "RightParen", "Semicolon",
     "Print", "IdA", "Semicolon">> :
     l \in {"True", "False", "Nil", "Num0", "StrA", "IdX"}, op \in {"And", "Or"}}

\* The declarations of a at one level: none, var a ; or var a = n ;
DeclarationsOfA(n) ==
  {<<>>, <<"Var", "IdA", "Semicolon">>, <<"Var", "IdA", "Equal", n, "Semicolon">>}

\* a = 0 ; or print a ; or var a = a ; or print a = 0 ; or print a = x ;
UsesOfA ==
  {<<"IdA", "Equal", "Num0", "Semicolon">>, <<"Print", "IdA", "Semicolon">>,
   <<"Var", "IdA", "Equal", "IdA", "Semicolon">>,
   <<"Print", "IdA", "Equal", "Num0", "Semicolon">>,
   <<"Print", "IdA", "Equal", "IdX", "Semicolon">>}

\* D1 { D2 { D3 U print a ; } print a ; } print a ;
ScopePrograms ==
  {d1 \o <<"LeftBrace">> \o d2 \o <<"LeftBrace">> \o d3 \o u
      \o <<"Print", "IdA", "Semicolon", "RightBrace">>
      \o <<"Print", "IdA", "Semicolon", "RightBrace">>
      \o <<"Print", "IdA", "Semicolon">> :
     d1 \in DeclarationsOfA("Num1"), d2 \in DeclarationsOfA("Num2"),
     d3 \in DeclarationsOfA("Num3"), u \in UsesOfA}

\* { var x = 1; { var x = 2; print x; } print x; }
ShadowProgram ==
  <<"LeftBrace", "Var", "IdX", "Equal", "Num1", "Semicolon",
    "LeftBrace", "Var", "IdX", "Equal", "Num2", "Semicolon",
    "Print", "IdX", "Semicolon", "RightBrace",
    "Print", "IdX", "Semicolon", "RightBrace">>

\* var i = 0; while (i < 3) { print i; i = i + 1; }
WhileProgram ==
  <<"Var", "IdI", "Equal", "Num0", "Semicolon",
    "While", "LeftParen", "IdI", "Less", "Num3", "RightParen",
    "LeftBrace", "Print", "IdI", "Semicolon",
    "IdI", "Equal", "IdI", "Plus", "Num1", "Semicolon", "RightBrace">>

\* The initializers, conditions and updates of a for statement over i.
ForInitializers ==
  {<<"Semicolon">>, <<"Var", "IdI", "Equal", "Num0", "Semicolon">>,
   <<"IdI", "Equal", "Num1", "Semicolon">>}

ForConditions == {<<>>, <<"IdI", "Less", "Num2">>, <<"False">>, <<"IdA">>}

ForUpdates == {<<>>, <<"IdI", "Equal", "IdI", "Plus", "Num1">>}

ForBodies ==
  {<<"Print", "IdI", "Semicolon">>,
   <<"LeftBrace", "Print", "IdI", "Semicolon",
     "IdI", "Equal", "IdI", "Plus", "Num1", "Semicolon", "RightBrace">>}

\* The clauses and bodies with which the loop ends or has no condition:
\* with the condition i < 2, the update or the body increases i.
ForClauses ==
  {t \in ForInitializers \X ForConditions \X ForUpdates \X ForBodies :
     t[2] = <<"IdI", "Less", "Num2">> =>
       (t[3] # <<>> \/ t[4] # <<"Print", "IdI", "Semicolon">>)}

\* var i = 0 ; for ( I C ; U ) B print i ;
ForPrograms ==
  {<<"Var", "IdI", "Equal", "Num0", "Semicolon", "For", "LeftParen">> \o t[1] \o t[2]
      \o <<"Semicolon">> \o t[3] \o <<"RightParen">> \o t[4]
      \o <<"Print", "IdI", "Semicolon">> : t \in ForClauses}

\* if ( C ) print 1 ; [else print 2 ;] print -"b" ; print 3 ;
IfPrograms ==
  {<<"If", "LeftParen", c, "RightParen", "Print", "Num1", "Semicolon">> \o e
      \o <<"Print", "Minus", "StrB", "Semicolon", "Print", "Num3", "Semicolon">> :
     c \in {"True", "False", "Nil", "IdA", "StrA"},
     e \in {<<>>, <<"Else", "Print", "Num2", "Semicolon">>}}

EvalPrograms ==
  BinaryPrograms \cup UnaryPrograms \cup LogicalPrograms \cup ScopePrograms
    \cup {ShadowProgram, WhileProgram} \cup ForPrograms
    \cup IfPrograms

\* print "a" + "b";
ConcatenationSource ==
  <<"p", "r", "i", "n", "t", " ", "\"", "a", "\"", " ", "+", " ", "\"", "b", "\"", ";">>

\* Source texts: the program is what parse_program returns for the tokens
\* of scan_tokens.
EvalSources ==
  {ConcatenationSource,
   <<"p", "r", "i", "n", "t", " ", "\"", "a", "b", "\"", ";">>,
   <<"p", "r", "i", "n", "t", " ", "1", "+", "2", ";">>}

EvalInit ==
  /\ pc = "eval"
  /\ sync = IdleSync
  /\ rt = NoRoundTrip
  /\ run = IdleRun
  /\ \/ \E kinds \in EvalPrograms :
          /\ scan = IdleScan
          /\ parser = [tokens |-> TokensOf(kinds), pos |-> 1, diags |-> <<>>]
     \/ \E source \in EvalSources :
          /\ scan = scan_tokens(source)
          /\ parser = [tokens |-> scan.tokens, pos |-> 1, diags |-> <<>>]
  /\ program = parse_program(parser.tokens).program
  /\ interp = InterpreterNew(program)

Evaluating(kind) == pc = "eval" /\ Current(interp).kind = kind

\* A variant of EvaluateVarDecl that defines the name, uninitialized, before
\* it evaluates the initializer.
EvaluateVarDeclDefiningFirst ==
  /\ Evaluating("VarDecl")
  /\ interp' = Defined(Current(interp).identifier,
                       IF Current(interp).initializer = NoNode
                       THEN Value(NoLiteral, interp)
                       ELSE evaluate_expression(
                              Current(interp).initializer,
                              [interp EXCEPT !.env = define(@, Current(interp).identifier,
                                                            NoLiteral)]))
  /\ UNCHANGED <<pc, scan, parser, program, sync, rt, run>>

\* evaluate_var_decl
EvaluateVarDecl ==
  /\ Evaluating("VarDecl")
  /\ interp' = Defined(Current(interp).identifier,
                       IF Current(interp).initializer = NoNode
                       THEN Value(NoLiteral, interp)
                       ELSE evaluate_expression(Current(interp).initializer, interp))
  /\ UNCHANGED <<pc, scan, parser, program, sync, rt, run>>

\* evaluate_statement, StmtKind::PrintStmt
EvaluatePrintStmt ==
  /\ Evaluating("PrintStmt")
  /\ interp' = Printed(evaluate_expression(Current(interp).expression, interp))
  /\ UNCHANGED <<pc, scan, parser, program, sync, rt, run>>

\* evaluate_statement, StmtKind::ExprStmt
EvaluateExprStmt ==
  /\ Evaluating("ExprStmt")
  /\ interp' = Continue(evaluate_expression(Current(interp).expression, interp).st, <<>>)
  /\ UNCHANGED <<pc, scan, parser, program, sync, rt, run>>

\* evaluate_statement, StmtKind::IfStmt, up to the branch taken
EvaluateIfStmt ==
  /\ Evaluating("IfStmt")
  /\ interp' = IfOn(Current(interp),
                    evaluate_expression(Current(interp).condition, interp))
  /\ UNCHANGED <<pc, scan, parser, program, sync, rt, run>>

\* evaluate_statement, StmtKind::WhileStmt: one evaluation of the condition
EvaluateWhileStmt ==
  /\ Evaluating("WhileStmt")
  /\ interp' = WhileOn(Current(interp),
                       evaluate_expression(Current(interp).condition, interp))
  /\ UNCHANGED <<pc, scan, parser, program, sync, rt, run>>

\* evaluate_statement, StmtKind::Block, entry
EvaluateBlock ==
  /\ Evaluating("Block")
  /\ interp' = Continue([interp EXCEPT !.env = increase_scope(@)],
                        Current(interp).declarations
                          \o <<ReduceScope(Len(interp.env))>>)
  /\ UNCHANGED <<pc, scan, parser, program, sync, rt, run>>

\* evaluate_statement, StmtKind::Block, exit
EvaluateBlockEnd ==
  /\ Evaluating("ReduceScope")
  /\ interp' = Continue(Reduced(interp, reduce_scope(interp.env)), <<>>)
  /\ UNCHANGED <<pc, scan, parser, program, sync, rt, run>>

\* evaluate_for_statement, up to the loop
EvaluateForStmt ==
  /\ Evaluating("ForStmt")
  /\ interp' = Continue([interp EXCEPT !.env = increase_scope(@)],
                        (IF Current(interp).initializer # NoNode
                         THEN <<Current(interp).initializer>> ELSE <<>>)
                          \o <<ForLoop(Current(interp).condition, Current(interp).update,
                                       Current(interp).body, Len(interp.env), FALSE)>>)
  /\ UNCHANGED <<pc, scan, parser, program, sync, rt, run>>

\* evaluate_for_statement, one round of the loop with Some(cond): the update
\* after a body, the condition, and the break or the body
EvaluateForLoop ==
  /\ Evaluating("ForLoop")
  /\ Current(interp).condition # NoNode
  /\ interp' = ForOn(Current(interp),
                     evaluate_expression(Current(interp).condition,
                                         ForUpdated(Current(interp), interp)))
  /\ UNCHANGED <<pc, scan, parser, program, sync, rt, run>>

\* A variant of EvaluateForLoopNone that takes the missing condition for
\* true: the update after a body, then the body.
EvaluateForLoopNoneAsTrue ==
  /\ Evaluating("ForLoop")
  /\ Current(interp).condition = NoNode
  /\ interp' = ForOn(Current(interp),
                     evaluate_expression(Lit(BooleanValue(TRUE)),
                                         ForUpdated(Current(interp), interp)))
  /\ UNCHANGED <<pc, scan, parser, program, sync, rt, run>>

\* evaluate_for_statement, one round of the loop with condition None:
\* nothing is evaluated and the loop goes round again
EvaluateForLoopNone ==
  /\ Evaluating("ForLoop")
  /\ Current(interp).condition = NoNode
  /\ interp' = [interp EXCEPT !.spinning = TRUE]
  /\ UNCHANGED <<pc, scan, parser, program, sync, rt, run>>

\* evaluate_program returns
EvaluateProgramEnd ==
  /\ pc = "eval"
  /\ interp.control = <<>>
  /\ pc' = "evaluated"
  /\ UNCHANGED <<scan, parser, program, sync, rt, run, interp>>

EvalNext ==
  \/ EvaluateVarDecl
  \/ EvaluatePrintStmt
  \/ EvaluateExprStmt
  \/ EvaluateIfStmt
  \/ EvaluateWhileStmt
  \/ EvaluateBlock
  \/ EvaluateBlockEnd
  \/ EvaluateForStmt
  \/ EvaluateForLoop
  \/ EvaluateForLoopNone
  \/ EvaluateProgramEnd

EvalSpec == EvalInit /\ [][EvalNext]_vars

(***************************************************************************)
(* Claims about EvalSpec.                                                  *)
(***************************************************************************)
ArithmeticOperators == {"Plus", "Minus", "Star", "Slash"}

\* The operand pairs an arithmetic operator is defined for.
DefinedFor(operator, left_val, right_val) ==
  \/ left_val.kind = "Number" /\ right_val.kind = "Number"
  \/ operator = "Plus" /\ left_val.kind = "String" /\ right_val.kind = "String"

\* A print statement of a binary expression with an arithmetic operator is
\* about to be evaluated.
PrintsArithmetic ==
  /\ Evaluating("PrintStmt")
  /\ Current(interp).expression.kind = "Binary"
  /\ Current(interp).expression.operator \in ArithmeticOperators

\* The operands of the binary expression about to be evaluated, as they
\* evaluate from left to right.
LeftOperand == evaluate_expression(Current(interp).expression.left, interp)

RightOperand == evaluate_expression(Current(interp).expression.right, LeftOperand.st)

\* C12: for + - / *, every operand pair other than (Number, Number), and
\* for + other than (String, String), is a runtime type error: the
\* expression yields Nil (the statement prints nil) and one error is
\* reported after the operands were evaluated.
C12_ArithmeticTypeErrors ==
  [][(PrintsArithmetic
        /\ ~DefinedFor(Current(interp).expression.operator,
                       LeftOperand.val, RightOperand.val))
       => /\ interp'.out = Append(interp.out, <<"n", "i", "l">>)
          /\ Len(interp'.diags) = Len(RightOperand.st.diags) + 1]_vars

\* A print statement of a logical expression is about to be evaluated.
PrintsLogical ==
  /\ Evaluating("PrintStmt")
  /\ Current(interp).expression.kind = "Logical"

\* The left operand of the logical expression about to be evaluated decides
\* the result.
ShortCircuits ==
  \/ Current(interp).expression.logic_op = "And" /\ ~is_truthy(LeftOperand.val)
  \/ Current(interp).expression.logic_op = "Or" /\ is_truthy(LeftOperand.val)

\* C13: and with a falsy left operand and or with a truthy left operand
\* yield the left operand's value and leave the environment and the errors
\* as the left operand's evaluation left them; otherwise the result is the
\* right operand's value, evaluated after the left operand.
C13_ShortCircuit ==
  [][PrintsLogical
       => IF ShortCircuits
          THEN /\ interp'.out = Append(interp.out, LiteralDisplay(LeftOperand.val))
               /\ interp'.env = LeftOperand.st.env
               /\ interp'.diags = LeftOperand.st.diags
          ELSE /\ interp'.out = Append(interp.out, LiteralDisplay(RightOperand.val))
               /\ interp'.env = RightOperand.st.env
               /\ interp'.diags = RightOperand.st.diags]_vars

\* var a = 1 ; print x and ( a = 2 ) ; print a ;  has printed nil and 1 and
\* reported the undefined x alone.
C13_Witness ==
  /\ pc = "evaluated"
  /\ parser.tokens =
       TokensOf(<<"Var", "IdA", "Equal", "Num1", "Semicolon",
                  "Print", "IdX", "And", "LeftParen", "IdA", "Equal", "Num2",
                  "RightParen", "Semicolon", "Print", "IdA", "Semicolon">>)
  /\ interp.out = <<<<"n", "i", "l">>, <<"1">>>>
  /\ Len(interp.diags) = 1

\* An expression statement or a print statement of an assignment is about
\* to be evaluated.
EvaluatesAssignment ==
  /\ pc = "eval"
  /\ Current(interp).kind \in {"ExprStmt", "PrintStmt"}
  /\ Current(interp).expression.kind = "Assignment"

\* The value expression of that assignment, evaluated first.
AssignedValue == evaluate_expression(Current(interp).expression.value, interp)

\* The frames of env that bind ident, and the innermost of them.
BindingFrames(env, ident) == {k \in 1..Len(env) : ident \in DOMAIN env[k]}

InnermostBinding(env, ident) ==
  CHOOSE k \in BindingFrames(env, ident) : \A j \in BindingFrames(env, ident) : j <= k

\* What the statement prints when it is a print statement.
PrintsValue(value) ==
  interp'.out =
    IF Current(interp).kind = "PrintStmt"
    THEN Append(interp.out, LiteralDisplay(value))
    ELSE interp.out

\* C14: an assignment evaluates its value expression first, then writes the
\* value into the innermost frame that binds the name and changes no other
\* frame; when no frame binds the name it reports "Undefined variable" and
\* yields Nil, and no frame changes.
C14_Assignment ==
  [][EvaluatesAssignment
       => IF BindingFrames(AssignedValue.st.env,
                           Current(interp).expression.identifier) # {}
          THEN /\ interp'.env =
                    [AssignedValue.st.env EXCEPT
                       ![InnermostBinding(AssignedValue.st.env,
                                          Current(interp).expression.identifier)] =
                         Insert(@, Current(interp).expression.identifier,
                                Initialized(AssignedValue.val))]
               /\ interp'.diags = AssignedValue.st.diags
               /\ PrintsValue(AssignedValue.val)
          ELSE /\ interp'.env = AssignedValue.st.env
               /\ interp'.diags =
                    Append(AssignedValue.st.diags,
                           [message |-> "Undefined variable '{}' in assignment.",
                            args |-> <<Current(interp).expression.identifier>>])
               /\ PrintsValue(NilValue)]_vars

\* var a = 1 ; { var a = 2 ; { a = 0 ; print a ; } print a ; } print a ;
\* has printed 0, 0 and 1: the assignment in the innermost block wrote the
\* frame of the block around it and not the global frame.
C14_Witness ==
  /\ pc = "evaluated"
  /\ parser.tokens =
       TokensOf(<<"Var", "IdA", "Equal", "Num1", "Semicolon", "LeftBrace",
                  "Var", "IdA", "Equal", "Num2", "Semicolon", "LeftBrace",
                  "IdA", "Equal", "Num0", "Semicolon",
                  "Print", "IdA", "Semicolon", "RightBrace",
                  "Print", "IdA", "Semicolon", "RightBrace",
                  "Print", "IdA", "Semicolon">>)
  /\ interp.out = <<<<"0">>, <<"0">>, <<"1">>>>
  /\ interp.diags = <<>>

\* A print statement of a variable is about to be evaluated.
PrintsVariable ==
  /\ Evaluating("PrintStmt")
  /\ Current(interp).expression.kind = "Var"

\* The innermost binding of the variable about to be read.
ReadBinding ==
  interp.env[InnermostBinding(interp.env, Current(interp).expression.identifier)]
            [Current(interp).expression.identifier]

\* The statement printed text and reported errors, and changed nothing else.
ReadGave(text, errors) ==
  /\ interp'.out = Append(interp.out, text)
  /\ interp'.diags = interp.diags \o errors
  /\ interp'.env = interp.env

\* C15: a read finds the innermost frame that binds the name; an
\* initialized binding gives its value, an uninitialized one gives Nil and
\* reports "Uninitialized Variable", a name bound in no frame gives Nil and
\* reports "Undefined Variable".
C15_VariableRead ==
  [][PrintsVariable
       => IF BindingFrames(interp.env, Current(interp).expression.identifier) = {}
          THEN ReadGave(<<"n", "i", "l">>,
                        <<[message |-> "Undefined Variable: {}",
                           args |-> <<Current(interp).expression.identifier>>]>>)
          ELSE IF ReadBinding.state = "Uninitialized"
          THEN ReadGave(<<"n", "i", "l">>,
                        <<[message |-> "Uninitialized Variable: {}",
                           args |-> <<Current(interp).expression.identifier>>]>>)
          ELSE ReadGave(LiteralDisplay(ReadBinding.value), <<>>)]_vars

\* var a = 1 ; { var a ; { print a ; print a ; } print a ; } print a ;  has
\* printed nil three times and then 1, with three errors for the
\* uninitialized a of the block.
C15_Witness ==
  /\ pc = "evaluated"
  /\ parser.tokens =
       TokensOf(<<"Var", "IdA", "Equal", "Num1", "Semicolon", "LeftBrace",
                  "Var", "IdA", "Semicolon", "LeftBrace",
                  "Print", "IdA", "Semicolon",
                  "Print", "IdA", "Semicolon", "RightBrace",
                  "Print", "IdA", "Semicolon", "RightBrace",
                  "Print", "IdA", "Semicolon">>)
  /\ interp.out = <<<<"n", "i", "l">>, <<"n", "i", "l">>, <<"n", "i", "l">>, <<"1">>>>
  /\ Len(interp.diags) = 3
  /\ \A k \in 1..3 : interp.diags[k].message = "Uninitialized Variable: {}"

\* The initializer of the variable declaration about to be evaluated:
\* NoLiteral without an initializer.
InitializerValue ==
  IF Current(interp).initializer = NoNode THEN Value(NoLiteral, interp)
  ELSE evaluate_expression(Current(interp).initializer, interp)

\* C16: a declaration inside a block binds the name in the block's frame
\* and changes no outer frame, a read after it finds the inner value, and
\* leaving the block removes the block's frame alone, so the outer binding
\* is visible again with its value; the program
\* { var x = 1; { var x = 2; print x; } print x; } prints 2 then 1.
C16_Shadowing ==
  [][/\ (Evaluating("VarDecl") /\ Len(interp.env) > 1)
          => /\ Outer(interp'.env) = Outer(InitializerValue.st.env)
             /\ Current(interp).identifier \in DOMAIN Inner(interp'.env)
             /\ InitializerValue.val # NoLiteral
                  => get(interp'.env, Current(interp).identifier)
                       = Ok(InitializerValue.val, interp'.env)
     /\ Evaluating("ReduceScope") => interp'.env = Outer(interp.env)
     /\ (pc' = "evaluated" /\ parser.tokens = TokensOf(ShadowProgram))
          => interp.out = <<<<"2">>, <<"1">>>>]_vars

\* { var x = 1; { var x = 2; print x; } print x; } has printed 2 then 1
\* and is back at the global frame.
C16_Witness ==
  /\ pc = "evaluated"
  /\ parser.tokens = TokensOf(ShadowProgram)
  /\ interp.out = <<<<"2">>, <<"1">>>>
  /\ Len(interp.env) = 1
  /\ interp.diags = <<>>

\* The entry depths of the scopes still to leave, innermost first.
RECURSIVE ScopeDepths(_)
ScopeDepths(control) ==
  IF control = <<>> THEN <<>>
  ELSE IF Head(control).kind \in {"ReduceScope", "ForLoop"}
  THEN <<Head(control).depth>> \o ScopeDepths(Tail(control))
  ELSE ScopeDepths(Tail(control))

\* The global frame is there and every frame above it is the scope of a
\* block or for statement that is still to leave, in the order of entry.
ScopesNested ==
  /\ Len(interp.env) >= 1
  /\ Len(ScopeDepths(interp.control)) = Len(interp.env) - 1
  /\ \A k \in 1..Len(ScopeDepths(interp.control)) :
       ScopeDepths(interp.control)[k] = Len(interp.env) - k

\* A block or the loop of a for statement is at its end: the step leaves
\* its scope.
LeavesScope ==
  \/ Evaluating("ReduceScope")
  \/ /\ Evaluating("ForLoop")
     /\ Len(interp'.control) < Len(interp.control)

\* C17: the global frame is always there; a step pushes one empty frame on
\* top, pops the top frame or keeps the frames in place, and the frames
\* that stay keep their bindings; when a Block or For statement finishes
\* the depth is the depth at which it started; popping at the global frame
\* is never attempted.
C17_ScopeDiscipline ==
  [][/\ ScopesNested
     /\ ScopesNested'
     /\ \/ Len(interp'.env) = Len(interp.env)
        \/ interp'.env = Append(interp.env, EmptyFrame)
        \/ Len(interp'.env) = Len(interp.env) - 1
     /\ \A k \in 1..Len(interp'.env) :
          k <= Len(interp.env) => DOMAIN interp.env[k] \subseteq DOMAIN interp'.env[k]
     /\ LeavesScope => Len(interp'.env) = Head(interp.control).depth
     /\ \A k \in 1..Len(interp'.diags) :
          interp'.diags[k].message # "Trying to reduce scope but already at global"]_vars

\* var i = 0 ; for ( var i = 0 ; a ; ) print i ; print i ;  has ended: the
\* undefined condition was reported inside the for statement, the loop
\* ended at once and the last statement ran at the global frame.
C17_Witness ==
  /\ pc = "evaluated"
  /\ parser.tokens =
       TokensOf(<<"Var", "IdI", "Equal", "Num0", "Semicolon", "For", "LeftParen",
                  "Var", "IdI", "Equal", "Num0", "Semicolon", "IdA", "Semicolon",
                  "RightParen", "Print", "IdI", "Semicolon",
                  "Print", "IdI", "Semicolon">>)
  /\ Len(interp.env) = 1
  /\ Len(interp.diags) = 1
  /\ interp.out = <<<<"0">>>>

\* C18: one round of the loop of a for statement without a condition does
\* what a round with the condition true does: the update after a body, then
\* the body again.
C18_OmittedConditionIsTrue ==
  [][(Evaluating("ForLoop") /\ Current(interp).condition = NoNode)
       => interp' = ForOn(Current(interp),
                          evaluate_expression(Lit(BooleanValue(TRUE)),
                                              ForUpdated(Current(interp), interp)))]_vars

\* The declarations of the program are print statements.
PrintsOnly ==
  \A k \in 1..Len(program) :
    /\ program[k].kind = "Statement"
    /\ program[k].statement.kind = "PrintStmt"

\* The state in which the variable is read or the operator of the unary or
\* binary expression about to be printed is applied: after its operands.
OperandsState ==
  CASE Current(interp).expression.kind = "Binary" -> RightOperand.st
    [] Current(interp).expression.kind = "Unary" ->
         evaluate_expression(Current(interp).expression.right, interp).st
    [] OTHER -> interp

\* C19: a step keeps the errors reported before and the declarations and
\* statements that follow the current one, in their order; a print
\* statement prints also when errors are reported, and prints nil when its
\* variable, unary or binary expression reports an error after its
\* operands were evaluated; evaluate_program returns only
\* after the last declaration, and a program of n print statements has
\* printed n lines then.
C19_ErrorsDoNotAbort ==
  [][/\ SubSeq(interp'.diags, 1, Len(interp.diags)) = interp.diags
     /\ interp.control # <<>> => IsSuffix(Tail(interp.control), interp'.control)
     /\ Evaluating("PrintStmt")
          => /\ Len(interp'.out) = Len(interp.out) + 1
             /\ (/\ Current(interp).expression.kind \in {"Var", "Unary", "Binary"}
                 /\ Len(interp'.diags) > Len(OperandsState.diags))
                  => interp'.out = Append(interp.out, <<"n", "i", "l">>)
     /\ pc' = "evaluated"
          => /\ interp.control = <<>>
             /\ PrintsOnly => Len(interp.out) = Len(program)]_vars

\* print - "b" ; print 3 ;  has printed nil and 3 and reported one error.
C19_Witness ==
  /\ pc = "evaluated"
  /\ parser.tokens =
       TokensOf(<<"Print", "Minus", "StrB", "Semicolon", "Print", "Num3", "Semicolon">>)
  /\ interp.out = <<<<"n", "i", "l">>, <<"3">>>>
  /\ Len(interp.diags) = 1
  /\ interp.diags[1].message = "{}, is not a number"

\* C20: a while statement evaluates its condition in the environment as it
\* is before every iteration, runs the body and comes back to the condition
\* when it is truthy and ends when it is falsy; the program
\* var i = 0; while (i < 3) { print i; i = i + 1; } prints 0, 1, 2 and ends
\* with i bound to 3.
C20_WhileLoop ==
  [][/\ Evaluating("WhileStmt")
          => interp'.control =
               (IF is_truthy(evaluate_expression(Current(interp).condition, interp).val)
                THEN <<Current(interp).do_stmt, Current(interp)>>
                ELSE <<>>) \o Tail(interp.control)
     /\ (pc' = "evaluated" /\ parser.tokens = TokensOf(WhileProgram))
          => /\ interp.out = <<<<"0">>, <<"1">>, <<"2">>>>
             /\ get(interp.env, <<"i">>)
                  = Ok(NumberValue(parse_f64(<<"3">>)), interp.env)]_vars

\* var i = 0; while (i < 3) { print i; i = i + 1; } has ended after three
\* iterations.
C20_Witness ==
  /\ pc = "evaluated"
  /\ parser.tokens = TokensOf(WhileProgram)
  /\ interp.out = <<<<"0">>, <<"1">>, <<"2">>>>
  /\ interp.env = <<Insert(EmptyFrame, <<"i">>,
                           Initialized(NumberValue(parse_f64(<<"3">>))))>>
  /\ interp.diags = <<>>

\* C21: the source print "a" + "b"; scanned, parsed and evaluated writes
\* the one line ab, without quotes.
C21_PrintsConcatenation ==
  (pc = "evaluated" /\ scan.src = ConcatenationSource)
    => interp.out = <<<<"a", "b">>>>

(***************************************************************************)
(* PromptSpec: run_prompt of src/src/main.rs on a bounded standard input,  *)
(* one step per line read and per pipeline stage of run.  run.stdin holds  *)
(* the lines still to read, each with its line feed, and run.input the     *)
(* line read last.                                                         *)
(***************************************************************************)
MaxLines == 3

\* An empty line, a blank line, 1; and two lines with a diagnostic of the
\* scanner and of the parser.
PromptLines ==
  {<<"\n">>, <<" ", "\n">>, <<"1", ";", "\n">>, <<"\"", "\n">>, <<"1", "\n">>}

WhiteSpace == {" ", "\n", "\t", "\r"}

\* input.trim().is_empty()
trim_is_empty(input) == \A k \in 1..Len(input) : input[k] \in WhiteSpace

PromptInit ==
  /\ pc = "prompt"
  /\ scan = IdleScan
  /\ parser = IdleParser
  /\ program = <<>>
  /\ sync = IdleSync
  /\ rt = NoRoundTrip
  /\ \E lines \in SeqsUpTo(PromptLines, MaxLines) :
       run = [contents |-> <<>>, stages |-> <<>>, exit |-> -1, stdout |-> <<>>,
              stdin |-> lines, input |-> <<>>]
  /\ interp = IdleInterp

\* io::stdin().read_line(&mut input): the next line, or nothing at the end
\* of the input.
read_line(r) ==
  IF r.stdin = <<>> THEN [r EXCEPT !.input = <<>>]
  ELSE [r EXCEPT !.input = Head(r.stdin), !.stdin = Tail(r.stdin)]

\* run_prompt, lines 48 to 62 up to the call of run: the prompt is printed,
\* a line is read, and an empty line ends the loop.
PromptedFor(r) ==
  IF trim_is_empty(r.input) THEN [r EXCEPT !.stdout = @ \o <<">", " ">>]
  ELSE [r EXCEPT !.stdout = @ \o <<">", " ">>, !.contents = r.input, !.stages = <<>>]

PromptReadLine ==
  /\ pc = "prompt"
  /\ run' = PromptedFor(read_line(run))
  /\ pc' = IF trim_is_empty(run'.input) THEN "ended" ELSE "run"
  /\ UNCHANGED <<scan, parser, program, sync, rt, interp>>

\* run called by run_prompt, lines 108 to 115: parsing, its check and
\* pretty printing; run returns into the loop of run_prompt.
PromptParsing ==
  /\ pc = "scanned"
  /\ Parsed(parse_program(scan.tokens))
  /\ pc' = IF run'.exit = 65 THEN "exited" ELSE "prompt"
  /\ UNCHANGED <<scan, sync, rt, interp>>

PromptNext == PromptReadLine \/ RunScanning \/ PromptParsing

PromptSpec == PromptInit /\ [][PromptNext]_vars

\* C22: the loop of run_prompt ends only at an empty line: when the driver
\* has stopped, by returning or by exiting, the line read last is empty,
\* whatever diagnostics the lines before it produced.
C22_PromptEndsAtEmptyLine ==
  pc \in {"ended", "exited"} => trim_is_empty(run.input)

\* The tokens parsed are operands separated by the operators ops, before Eof.
ChainOf(ops) ==
  /\ Len(parser.tokens) = 2 * Len(ops) + 2
  /\ \A k \in 1..Len(ops) : parser.tokens[2 * k].token_type = ops[k]

\* C23: every binary level is left-associative: for operators of one level,
\* 1 op1 2 op2 3 parses as Binary(Binary(1, op1, 2), op2, 3) and
\* 1 op1 2 op2 3 op3 1 as Binary(Binary(Binary(1, op1, 2), op2, 3), op3, 1),
\* and in no expression parsed is the right operand of a Binary node an
\* unparenthesised Binary node of the same level.
C23_LeftAssociative ==
  ExprParsed =>
    /\ rt.first.ok => RightOperandsHigher(rt.first.node)
    /\ \A ops \in BinaryLevels : \A op1 \in ops : \A op2 \in ops :
         /\ ChainOf(<<op1, op2>>)
               /\ parser.tokens = TokensOf(<<"Num1", op1, "Num2", op2, "Num3">>) =>
              /\ ValidFirst
              /\ rt.first.node =
                   Binary(Binary(LitNumber(<<"1">>), op1, LitNumber(<<"2">>)),
                          op2, LitNumber(<<"3">>))
         /\ \A op3 \in ops :
              ChainOf(<<op1, op2, op3>>)
                /\ parser.tokens
                     = TokensOf(<<"Num1", op1, "Num2", op2, "Num3", op3, "Num1">>) =>
                /\ ValidFirst
                /\ rt.first.node =
                     Binary(Binary(Binary(LitNumber(<<"1">>), op1, LitNumber(<<"2">>)),
                                   op2, LitNumber(<<"3">>)),
                            op3, LitNumber(<<"1">>))

\* C23's case: 1 - 2 + 3 - 1 has been parsed as ((1 - 2) + 3) - 1.
C23_Witness ==
  /\ pc = "parsed"
  /\ parser.tokens =
       TokensOf(<<"Num1", "Minus", "Num2", "Plus", "Num3", "Minus", "Num1">>)
  /\ rt.first.node =
       Binary(Binary(Binary(LitNumber(<<"1">>), "Minus", LitNumber(<<"2">>)),
                     "Plus", LitNumber(<<"3">>)),
              "Minus", LitNumber(<<"1">>))

\* Every Logical node carries And or Or, no Binary node does, and the
\* operands of a Logical node are unparenthesised assignments never and
\* Logical nodes only on the left.
RECURSIVE LogicalTier(_)
LogicalTier(e) ==
  CASE e.kind = "Logical" ->
         /\ e.logic_op \in {"And", "Or"}
         /\ e.left.kind # "Assignment"
         /\ e.right.kind \notin {"Assignment", "Logical"}
         /\ LogicalTier(e.left)
         /\ LogicalTier(e.right)
    [] e.kind = "Binary" ->
         /\ e.operator \notin {"And", "Or"}
         /\ e.left.kind \notin {"Logical", "Assignment"}
         /\ e.right.kind \notin {"Logical", "Assignment"}
         /\ LogicalTier(e.left)
         /\ LogicalTier(e.right)
    [] e.kind = "Unary" -> LogicalTier(e.right)
    [] e.kind = "Grouping" -> LogicalTier(e.expression)
    [] e.kind = "Assignment" -> LogicalTier(e.value)
    [] OTHER -> TRUE

\* C24: and and or are one tier between assignment and equality, left-
\* associative across each other, and give Logical nodes with the token
\* kind: a l1 1 l2 2 parses as Logical(Logical(a, l1, 1), l2, 2),
\* a = 1 l 2 as Assignment(a, Logical(1, l, 2)), 1 l 2 == 3 as
\* Logical(1, l, Binary(2, ==, 3)) and 1 == 2 l 3 as
\* Logical(Binary(1, ==, 2), l, 3).
C24_LogicalTier ==
  ExprParsed =>
    /\ rt.first.ok => LogicalTier(rt.first.node)
    /\ \A l1 \in {"And", "Or"} :
         /\ \A l2 \in {"And", "Or"} :
              ChainOf(<<l1, l2>>)
                /\ parser.tokens = TokensOf(<<"IdA", l1, "Num1", l2, "Num2">>) =>
                /\ ValidFirst
                /\ rt.first.node =
                     Logical(Logical(Var(<<"a">>), l1, LitNumber(<<"1">>)),
                             l2, LitNumber(<<"2">>))
         /\ ChainOf(<<"Equal", l1>>)
               /\ parser.tokens = TokensOf(<<"IdA", "Equal", "Num1", l1, "Num2">>) =>
              /\ ValidFirst
              /\ rt.first.node =
                   Assignment(<<"a">>,
                              Logical(LitNumber(<<"1">>), l1, LitNumber(<<"2">>)))
         /\ ChainOf(<<l1, "EqualEqual">>)
               /\ parser.tokens = TokensOf(<<"Num1", l1, "Num2", "EqualEqual", "Num3">>) =>
              /\ ValidFirst
              /\ rt.first.node =
                   Logical(LitNumber(<<"1">>), l1,
                           Binary(LitNumber(<<"2">>), "EqualEqual", LitNumber(<<"3">>)))
         /\ ChainOf(<<"EqualEqual", l1>>)
               /\ parser.tokens = TokensOf(<<"Num1", "EqualEqual", "Num2", l1, "Num3">>) =>
              /\ ValidFirst
              /\ rt.first.node =
                   Logical(Binary(LitNumber(<<"1">>), "EqualEqual", LitNumber(<<"2">>)),
                           l1, LitNumber(<<"3">>))

\* C24's case: a or 1 and 2 has been parsed as Logical(Logical(a, or, 1),
\* and, 2).
C24_Witness ==
  /\ pc = "parsed"
  /\ parser.tokens = TokensOf(<<"IdA", "Or", "Num1", "And", "Num2">>)
  /\ rt.first.node =
       Logical(Logical(Var(<<"a">>), "Or", LitNumber(<<"1">>)),
               "And", LitNumber(<<"2">>))

\* C25: a for statement without a condition never executes its body and
\* never evaluates its update: when its loop is reached the body has not
\* been entered, and a round of the loop leaves the statements to evaluate,
\* the environment, the lines printed and the errors reported as they were.
C25_NoConditionNoBody ==
  [][(Evaluating("ForLoop") /\ Current(interp).condition = NoNode)
       => /\ ~Current(interp).entered
          /\ interp'.control = interp.control
          /\ interp'.env = interp.env
          /\ interp'.out = interp.out
          /\ interp'.diags = interp.diags]_vars

\* C25's case: the loop of a for statement with no condition, a print
\* statement as body and an update has gone round, and nothing was printed.
C25_Witness ==
  /\ Evaluating("ForLoop")
  /\ interp.spinning
  /\ Current(interp).condition = NoNode
  /\ Current(interp).update # NoNode
  /\ Current(interp).body.kind = "PrintStmt"
  /\ interp.out = <<>>

\* Sources without a syntax error: the empty program, 1; a = 1; and 1 * 1;
ValidSources ==
  {<<>>, <<"1", ";">>, <<"a", "=", "1", ";">>, <<"1", "*", "1", ";">>}

\* C26: for the tokens scan_tokens gives for a program without a syntax
\* error, the empty program included, parse_program reports no diagnostic
\* and the process does not exit after parsing.
C26_ValidProgramsParseClean ==
  (run.contents \in ValidSources /\ "parse" \in StagesRun) =>
    /\ parser.diags = <<>>
    /\ run.exit # 65

\* C27: every round of the loop of parse_program takes at least one token
\* or ends the loop, and never moves past the end of the tokens: the number
\* of tokens left strictly decreases while the loop goes on.
C27_ParseProgramProgress ==
  [][pc = "prog" =>
       /\ parser'.tokens = parser.tokens
       /\ parser'.pos <= Len(parser.tokens) + 1
       /\ pc' = "done" \/ (pc' = "prog" /\ parser'.pos > parser.pos)]_vars

\* C27's case: the loop has ended at the end of the tokens after a round
\* that failed and synchronized, a round that pushed a print statement and
\* the round that failed on Eof.
C27_Witness ==
  /\ pc = "done"
  /\ Len(program) = 1
  /\ program[1].kind = "Statement"
  /\ program[1].statement.kind = "PrintStmt"
  /\ Len(parser.diags) = 3
  /\ parser.diags[1] # "Invalid assignment target."
  /\ parser.diags[2] = "Unexpected token: Eof"
  /\ parser.pos = Len(parser.tokens) + 1

\* C28: the column recorded depends only on the place within the line: two
\* tokens of one character at the same place of their lines, the first
\* character of line 1 and of a later line included, carry the same column.
C28_ColumnByPlaceInLine ==
  \A j \in 1..Len(scan.tokens) : \A k \in 1..Len(scan.tokens) :
     (/\ Len(scan.tokens[j].lexeme) = 1
      /\ Len(scan.tokens[k].lexeme) = 1
      /\ ColumnOf(scan.src, scan.starts[j]) = ColumnOf(scan.src, scan.starts[k]))
       => scan.tokens[j].column = scan.tokens[k].column

\* C29: an assignment to a name that no frame binds changes no frame and
\* binds the name in none, so that a read of the name right after it gets
\* Err(UndefinedVariable) and reports "Undefined Variable".
C29_AssignUnboundBindsNothing ==
  [][(/\ EvaluatesAssignment
      /\ BindingFrames(AssignedValue.st.env, Current(interp).expression.identifier) = {})
       => /\ interp'.env = AssignedValue.st.env
          /\ BindingFrames(interp'.env, Current(interp).expression.identifier) = {}
          /\ get(interp'.env, Current(interp).expression.identifier)
               = Err("UndefinedVariable", <<interp'.env[1]>>)
          /\ evaluate_var(Current(interp).expression.identifier, interp')
               = Value(NilValue,
                       RuntimeErrorReport(interp', "Undefined Variable: {}",
                                          <<Current(interp).expression.identifier>>))]_vars

\* C29's case: { { a = 0 ; print a ; } print a ; } print a ; has reported
\* the assignment and each of the three reads and has printed nil three
\* times.
C29_Witness ==
  /\ pc = "evaluated"
  /\ parser.tokens =
       TokensOf(<<"LeftBrace", "LeftBrace", "IdA", "Equal", "Num0", "Semicolon",
                  "Print", "IdA", "Semicolon", "RightBrace",
                  "Print", "IdA", "Semicolon", "RightBrace",
                  "Print", "IdA", "Semicolon">>)
  /\ interp.out = <<<<"n", "i", "l">>, <<"n", "i", "l">>, <<"n", "i", "l">>>>
  /\ Len(interp.diags) = 4
  /\ interp.env = <<EmptyFrame>>

\* var a = a ; is about to be evaluated in a block whose frame does not
\* bind a, with a bound to a value in an enclosing frame.
DeclaresFromEnclosing ==
  /\ Evaluating("VarDecl")
  /\ Current(interp).initializer # NoNode
  /\ Current(interp).initializer.kind = "Var"
  /\ Current(interp).initializer.identifier = Current(interp).identifier
  /\ Len(interp.env) > 1
  /\ Current(interp).identifier \notin DOMAIN Inner(interp.env)
  /\ get(Outer(interp.env), Current(interp).identifier).ok

\* C30: a var declaration evaluates its initializer before it defines the
\* name: var a = a ; in a block, with a bound in an enclosing frame, reads
\* the enclosing value without an error and binds a to it in the frame of
\* the block, leaving the enclosing frames as they were; from then on a
\* read of a finds the binding of the block.
C30_InitializerBeforeDefine ==
  [][DeclaresFromEnclosing
       => /\ interp'.diags = interp.diags
          /\ Outer(interp'.env) = Outer(interp.env)
          /\ Inner(interp'.env) =
               Insert(Inner(interp.env), Current(interp).identifier,
                      Initialized(get(Outer(interp.env),
                                      Current(interp).identifier).node))
          /\ get(interp'.env, Current(interp).identifier)
               = Ok(get(Outer(interp.env), Current(interp).identifier).node,
                    interp'.env)]_vars

\* C30's case: var a = 1 ; { var a = 2 ; { var a = a ; print a ; } print a ; }
\* print a ; has printed 2, 2 and 1 without an error.
C30_Witness ==
  /\ pc = "evaluated"
  /\ parser.tokens =
       TokensOf(<<"Var", "IdA", "Equal", "Num1", "Semicolon", "LeftBrace",
                  "Var", "IdA", "Equal", "Num2", "Semicolon", "LeftBrace",
                  "Var", "IdA", "Equal", "IdA", "Semicolon",
                  "Print", "IdA", "Semicolon", "RightBrace",
                  "Print", "IdA", "Semicolon", "RightBrace",
                  "Print", "IdA", "Semicolon">>)
  /\ interp.out = <<<<"2">>, <<"2">>, <<"1">>>>
  /\ interp.diags = <<>>

====
